---- MODULE Spec2Model ----
(***************************************************************************)
(* State-machine model of the candidate-evaluation pipeline of the         *)
(* exoplanet dashboard (src/unnamed/part_000, src/data.js).                *)
(*                                                                         *)
(* Numbers.  JavaScript numbers are IEEE doubles.  The model keeps         *)
(*  - the generator state and the name hash as exact 32-bit values, held   *)
(*    as two 16-bit limbs <<hi, lo>> (value = hi * 2^16 + lo);             *)
(*  - every score, threshold and physical quantity as a fixed-point        *)
(*    integer with SCALE units per 1.0, rounded to the nearest unit after  *)
(*    each product, quotient and root; a draw of the generator is its      *)
(*    state scaled down to SCALE units.                                    *)
(* Strings are sequences of UTF-16 code units.                             *)
(***************************************************************************)
EXTENDS Integers, Sequences, FiniteSets, TLC

\* Fixed-point units per 1.0.
SCALE == 100 * 100

\* 2^16, the limb base.
LIMB == 256 * 256

Min(a, b) == IF a <= b THEN a ELSE b

Max(a, b) == IF a >= b THEN a ELSE b

Abs(a) == IF a < 0 THEN -a ELSE a

\* a * b in fixed point, rounded to nearest as a double product is.
FMul(a, b) == (a * b + SCALE \div 2) \div SCALE

\* a / b in fixed point for a >= 0, b > 0, rounded to nearest.
FDiv(a, b) == (a * SCALE + b \div 2) \div b

RECURSIVE ISqrtGo(_, _, _)
\* Largest r in lo..hi with r * r <= n.
ISqrtGo(n, lo, hi) ==
  IF lo >= hi THEN lo
  ELSE LET mid == (lo + hi + 1) \div 2
       IN  IF mid * mid <= n THEN ISqrtGo(n, mid, hi) ELSE ISqrtGo(n, lo, mid - 1)

\* The integer nearest to sqrt(n), for 0 <= n <= SCALE * SCALE.
ISqrt(n) ==
  LET r == ISqrtGo(n, 0, SCALE)
  IN  IF n - r * r > r THEN r + 1 ELSE r

\* Math.sqrt on a fixed-point x in [0, 1].
FSqrt(x) == ISqrt(x * SCALE)

(***************************************************************************)
(* Seeded generator: part_000 lines 10-26.                                 *)
(***************************************************************************)

\* The multiplier and increment of seededRandom (line 15).
LcgMultiplier == 1664525

LcgIncrement == 1013904223

\* prng_seed * 1664525 + 1013904223 before the remainder is taken, as four
\* 16-bit limbs, the most significant first.
LcgExact(s) ==
  LET aHi == LcgMultiplier \div LIMB
      aLo == LcgMultiplier % LIMB
      cHi == LcgIncrement \div LIMB
      cLo == LcgIncrement % LIMB
      t0  == s[2] * aLo + cLo
      t1  == s[1] * aLo + s[2] * aHi + cHi + (t0 \div LIMB)
      t2  == s[1] * aHi + (t1 \div LIMB)
  IN  <<t2 \div LIMB, t2 % LIMB, t1 % LIMB, t0 % LIMB>>

\* A step of the generator that takes the remainder by 2^33.
LcgStepModulo33Bits(s) ==
  LET x == LcgExact(s)
  IN  <<(x[2] % 2) * LIMB + x[3], x[4]>>

\* prng_seed * 1664525 + 1013904223 modulo 4294967296, on limbs.  The double
\* product stays below 2^53, so the code's arithmetic is exact.
LcgStep(s) ==
  LET aHi == LcgMultiplier \div LIMB
      aLo == LcgMultiplier % LIMB
      cHi == LcgIncrement \div LIMB
      cLo == LcgIncrement % LIMB
      t0  == s[2] * aLo + cLo
      t1  == s[1] * aLo + s[2] * aHi + cHi + (t0 \div LIMB)
  IN  <<t1 % LIMB, t0 % LIMB>>

\* The value seededRandom returns for generator state s: s / 4294967296,
\* as a fixed-point number in 0 .. SCALE - 1.
Unit(s) == (s[1] * SCALE + ((s[2] * SCALE) \div LIMB)) \div LIMB

RECURSIVE LcgSkip(_, _)
\* The generator state after n further draws.
LcgSkip(s, n) ==
  IF n = 0 THEN s
  ELSE LET t == LcgStep(s)
       IN  IF t[1] >= LIMB THEN t ELSE LcgSkip(t, n - 1)

RECURSIVE HashGo(_, _, _)
\* The loop of hashCode: hash = ((hash << 5) - hash) + char; hash |= 0.
\* h is the 32-bit pattern of hash.
HashGo(str, i, h) ==
  IF i > Len(str) THEN h
  ELSE LET t0 == h[2] * 31 + str[i]
           t1 == h[1] * 31 + (t0 \div LIMB)
       IN  HashGo(str, i + 1, <<t1 % LIMB, t0 % LIMB>>)

\* hash << 5: the 32-bit pattern of h shifted left by five bits.
ShiftLeft5(h) == <<(h[1] * 32 + h[2] \div (LIMB \div 32)) % LIMB, (h[2] * 32) % LIMB>>

\* The body of the loop of hashCode (lines 21-23): hash = ((hash << 5) - hash)
\* + char, then hash |= 0; patterns in, pattern out.
hashStep(h, char) ==
  LET sh == ShiftLeft5(h)
      lo == LIMB + sh[2] - h[2] + char
      hi == LIMB + sh[1] - h[1] + (lo \div LIMB) - 1
  IN  <<hi % LIMB, lo % LIMB>>

\* A return of the 32-bit pattern as it is, read as a number in [0, 2^32).
Pattern32(h) == h

\* Math.abs of the signed 32-bit value with pattern h (2^31 for -2^31).
Abs32(h) ==
  IF h[1] < LIMB \div 2 THEN h
  ELSE IF h[2] = 0 THEN <<(LIMB - h[1]) % LIMB, 0>>
       ELSE <<LIMB - 1 - h[1], LIMB - h[2]>>

hashCode(str) == Abs32(HashGo(str, 1, <<0, 0>>))

(***************************************************************************)
(* Math.pow and Math.exp on fixed-point numbers.                           *)
(***************************************************************************)

RECURSIVE PowFrac(_, _, _, _)
\* x^e for 0 <= e < 1 as a product of the roots x^(1/2), x^(1/4), ... picked by
\* the first binary digits of e: root is x^(2^-j) after j square roots, e what
\* is left of the exponent (scaled by 2^j), acc the product so far.
PowFrac(root, e, left, acc) ==
  IF left = 0 \/ e = 0 THEN acc
  ELSE LET r  == FSqrt(root)
           e2 == 2 * e
       IN  IF e2 >= SCALE THEN PowFrac(r, e2 - SCALE, left - 1, FMul(acc, r))
           ELSE PowFrac(r, e2, left - 1, acc)

RECURSIVE Pow(_, _)
\* Math.pow(x, e) for fixed-point x in [0, 1] and e >= 0.
Pow(x, e) ==
  IF e >= SCALE THEN FMul(x, Pow(x, e - SCALE))
  ELSE PowFrac(x, e, 14, SCALE)

RECURSIVE ExpSeries(_, _, _, _)
\* term + term * f / k + ... : the Taylor series of Math.exp(f), 0 <= f < 1.
ExpSeries(f, k, term, sum) ==
  IF term = 0 THEN sum
  ELSE LET next == (FMul(term, f) + k \div 2) \div k
       IN  ExpSeries(f, k + 1, next, sum + next)

\* Math.exp(-1).
ExpMinusOne == FDiv(SCALE, ExpSeries(SCALE - 1, 1, SCALE, SCALE) + 1)

RECURSIVE ExpNegInt(_, _)
ExpNegInt(n, acc) == IF n = 0 THEN acc ELSE ExpNegInt(n - 1, FMul(acc, ExpMinusOne))

\* Math.exp(-y) for fixed-point y >= 0.
ExpNeg(y) ==
  ExpNegInt(y \div SCALE, FDiv(SCALE, ExpSeries(y % SCALE, 1, SCALE, SCALE)))

\* a / b for quantities up to about 2000.0 without leaving 32 bits.
Ratio(a, b) ==
  IF a < 20 * SCALE THEN FDiv(a, b) ELSE FDiv(a \div 100, b \div 100)

(***************************************************************************)
(* Similarity scorers: calculateESI (2059-2066) and                        *)
(* calculateAtmosphericSimilarity (693-735).                               *)
(***************************************************************************)

\* A reading of an optional number that takes an absent one as 0.
AbsentAsZero(x, d) == IF x = <<>> THEN 0 ELSE x[1]

\* An optional number is <<>> (absent: null or undefined) or <<v>>.
\* `x || d' of JavaScript: d when x is absent or 0.
OrDefault(x, d) == IF x = <<>> THEN d ELSE IF x[1] = 0 THEN d ELSE x[1]

\* The exponents of calculateESI (lines 2062, 2063): 0.57 and 1.07.
EsiRadiusExponent == (57 * SCALE) \div 100

EsiFluxExponent == (107 * SCALE) \div 100

\* Math.pow(1 - Math.abs((x - 1) / (x + 1)), w)
EsiTerm(x, w) == Pow(SCALE - Ratio(Abs(x - SCALE), x + SCALE), w)

calculateESI(radius, flux) ==
  LET r     == OrDefault(radius, SCALE)
      f     == OrDefault(flux, SCALE)
      esi_r == EsiTerm(r, EsiRadiusExponent)
      esi_f == EsiTerm(f, EsiFluxExponent)
  IN  [radius |-> esi_r, flux |-> esi_f, aggregate |-> ISqrt(esi_r * esi_f)]

\* The gases of a composition, in the order predictAtmosphereAndSimilarity
\* draws them (lines 2021-2028).
Gases == <<"H2O", "O2", "CO2", "CH4", "O3", "SO2", "NH3", "CO">>

\* scoreComponent: exp(-(conc - ideal)^2 / (2 * tolerance^2))
scoreComponent(conc, ideal, tolerance) ==
  LET u == FDiv(Abs(conc - ideal), tolerance)
  IN  ExpNeg((FMul(u, u) + 1) \div 2)

\* The score without its final clamp to [0, 1].
similarityWithoutClamp(concs) ==
  LET h2o_score == concs.H2O \div 10
      o2_score  == scoreComponent(concs.O2, 21 * SCALE, 5 * SCALE)
      co2_score == SCALE - Min(SCALE, concs.CO2 * 2)
      o3_score  == concs.O3 * 10
      ch4_score == scoreComponent(concs.CH4, SCALE \div 100, (5 * SCALE) \div 100)
      toxic_penalty == (concs.CO * 10 + concs.SO2 * 10 + concs.NH3 * 10) \div 3
      positive_score ==
        (h2o_score * 35 + o2_score * 35 + co2_score * 15 + o3_score * 10 + ch4_score * 5)
          \div 100
  IN  FMul(positive_score, SCALE - (toxic_penalty * 3) \div 2)

\* calculateAtmosphericSimilarity (lines 693-735); concentrations are in
\* percent, as fixed-point numbers.
calculateAtmosphericSimilarity(concs) ==
  LET h2o_score == concs.H2O \div 10
      o2_score  == scoreComponent(concs.O2, 21 * SCALE, 5 * SCALE)
      co2_score == SCALE - Min(SCALE, concs.CO2 * 2)
      o3_score  == concs.O3 * 10
      ch4_score == scoreComponent(concs.CH4, SCALE \div 100, (5 * SCALE) \div 100)
      toxic_penalty == (concs.CO * 10 + concs.SO2 * 10 + concs.NH3 * 10) \div 3
      positive_score ==
        (h2o_score * 35 + o2_score * 35 + co2_score * 15 + o3_score * 10 + ch4_score * 5)
          \div 100
      final_score == FMul(positive_score, SCALE - (toxic_penalty * 3) \div 2)
  IN  Max(0, Min(SCALE, final_score))


(***************************************************************************)
(* Catalog: a sample of planetData (src/data.js), in catalog order, with   *)
(* the generated radius and insolation rounded to four decimals.           *)
(***************************************************************************)

\* "KIC-8462852 b" and "KOI-701.03", the two reference candidates.
NameKIC8462852b == <<75, 73, 67, 45, 56, 52, 54, 50, 56, 53, 50, 32, 98>>

NameKOI70103 == <<75, 79, 73, 45, 55, 48, 49, 46, 48, 51>>

planetData ==
  << \* "Kepler-1343 b": the first record of the catalog
     [pl_name  |-> <<75, 101, 112, 108, 101, 114, 45, 49, 51, 52, 51, 32, 98>>,
      pl_rade  |-> <<9312>>, pl_insol |-> <<8401>>],
     \* "KIC-10905746 b"
     [pl_name  |-> <<75, 73, 67, 45, 49, 48, 57, 48, 53, 55, 52, 54, 32, 98>>,
      pl_rade  |-> <<11414>>, pl_insol |-> <<9488>>],
     \* "KIC-8462852 b": injected reference candidate
     [pl_name  |-> NameKIC8462852b,
      pl_rade  |-> <<10200>>, pl_insol |-> <<10100>>] >>

\* A planet is named in the state by its index in planetData.
Planets == 1 .. Len(planetData)

(***************************************************************************)
(* Stage evaluators.  The generator is the module-global prng_seed; an    *)
(* operator that draws takes the generator state and returns the new one.  *)
(***************************************************************************)

reseed(s) == s

\* seededRandom on generator state s.
seededRandom(s) == [seed |-> LcgStep(s), value |-> Unit(LcgStep(s))]

\* An isIdealCandidate that knows KOI-701.03 alone.
isIdealCandidateKOIOnly(planet) == planet.pl_name = NameKOI70103

\* isIdealCandidate (lines 2099 and 2122).
isIdealCandidate(planet) ==
  planet.pl_name = NameKIC8462852b \/ planet.pl_name = NameKOI70103

\* Points of the light curve generatePhaseFoldedLcData draws noise for when
\* runLcCNN calls it (line 2111): one seededRandom call each (line 2090).
LcPoints == 64

\* A runLcCNN that scores every candidate on the low band.
runLcCNNLowBand(s, planet, models) ==
  IF ~models.lc_cnn THEN [seed |-> s, score |-> 0, pc |-> "lcScore"]
  ELSE LET d == seededRandom(s)
       IN  [seed  |-> LcgSkip(d.seed, LcPoints),
            score |-> SCALE \div 10 + (Pow(d.value, (5 * SCALE) \div 2) * 85) \div 100,
            pc    |-> "lcThenable"]

\* runLcCNN up to its first await.  pc is where the caller is then suspended:
\* "lcScore" when the function has returned, "lcThenable" when it awaits the
\* promise of generatePhaseFoldedLcData, which is then still to be resolved
\* with the promise the body of that function returned.
runLcCNN(s, planet, models) ==
  IF ~models.lc_cnn THEN [seed |-> s, score |-> 0, pc |-> "lcScore"]
  ELSE LET d == seededRandom(s)
       IN  IF isIdealCandidate(planet)
           THEN [seed |-> d.seed, score |-> (95 * SCALE) \div 100 + (d.value * 4) \div 100,
                 pc |-> "lcScore"]
           ELSE [seed  |-> LcgSkip(d.seed, LcPoints),
                 score |-> SCALE \div 10 + (Pow(d.value, (5 * SCALE) \div 2) * 85) \div 100,
                 pc    |-> "lcThenable"]

\* A gate of runStage1 that either score opens.
Stage1GateEither(esi, lcScore, thr) == esi.aggregate >= thr.esi \/ lcScore >= thr.lc

\* The gate of runStage1 (line 2008).
Stage1Gate(esi, lcScore, thr) == esi.aggregate >= thr.esi /\ lcScore >= thr.lc

\* x + (draw - 0.5) * width
Jitter(x, d, width) == x + FMul(d - SCALE \div 2, width)

\* predictAtmosphereAndSimilarity after its reseed (lines 2015-2044): draws the
\* eight gases in order from the generator at s and scores the composition.
predictedFrom(s, planet) ==
  LET d1 == seededRandom(s)
      d2 == seededRandom(d1.seed)
      d3 == seededRandom(d2.seed)
      d4 == seededRandom(d3.seed)
      d5 == seededRandom(d4.seed)
      d6 == seededRandom(d5.seed)
      d7 == seededRandom(d6.seed)
      d8 == seededRandom(d7.seed)
      predictedComposition ==
        IF isIdealCandidate(planet)
        THEN [H2O |-> Jitter(SCALE, d1.value, SCALE \div 2),
              O2  |-> Jitter(21 * SCALE, d2.value, 4 * SCALE),
              CO2 |-> Jitter((4 * SCALE) \div 100, d3.value, (2 * SCALE) \div 100),
              CH4 |-> Jitter(SCALE \div 100, d4.value, SCALE \div 100),
              O3  |-> Jitter(SCALE \div 100, d5.value, SCALE \div 100),
              SO2 |-> d6.value \div 1000,
              NH3 |-> d7.value \div 1000,
              CO  |-> d8.value \div 1000]
        ELSE [H2O |-> d1.value * 10,
              O2  |-> d2.value * 25,
              CO2 |-> d3.value,
              CH4 |-> d4.value \div 10,
              O3  |-> d5.value \div 10,
              SO2 |-> d6.value \div 10,
              NH3 |-> d7.value \div 10,
              CO  |-> d8.value \div 10]
  IN  [seed |-> d8.seed, composition |-> predictedComposition,
       earthSimilarity |-> calculateAtmosphericSimilarity(predictedComposition)]

\* A prediction that does not reseed: it draws from the generator as it is.
predictWithoutReseed(s, planet) == predictedFrom(s, planet)

\* predictAtmosphereAndSimilarity with the generator at s: reseed (line 2013)
\* overwrites it with the hash of the name.
predictAtmosphereAndSimilarity(s, planet) ==
  predictedFrom(reseed(hashCode(planet.pl_name)), planet)

\* A runPhiMLP that blends with the weights exchanged.
runPhiMLPExchanged(s, planet, earthSimilarity, models) ==
  IF ~models.phi_mlp THEN [seed |-> s, base |-> 0, phiLikelihood |-> 0]
  ELSE LET d == seededRandom(s)
           baseLikelihood ==
             IF isIdealCandidate(planet)
             THEN (90 * SCALE) \div 100 + (d.value * 5) \div 100
             ELSE (20 * SCALE) \div 100 + (d.value * 38) \div 100
       IN  [seed |-> d.seed, base |-> baseLikelihood,
            phiLikelihood |-> (baseLikelihood * 4 + earthSimilarity * 6) \div 10]

\* runPhiMLP: it has no await, so it runs to its return when called.
runPhiMLP(s, planet, earthSimilarity, models) ==
  IF ~models.phi_mlp THEN [seed |-> s, base |-> 0, phiLikelihood |-> 0]
  ELSE LET d == seededRandom(s)
           baseLikelihood ==
             IF isIdealCandidate(planet)
             THEN (90 * SCALE) \div 100 + (d.value * 5) \div 100
             ELSE (20 * SCALE) \div 100 + (d.value * 38) \div 100
       IN  [seed |-> d.seed, base |-> baseLikelihood,
            phiLikelihood |-> (baseLikelihood * 6 + earthSimilarity * 4) \div 10]

\* runStage2 up to its await of runPhiMLP (lines 2050-2053).
runStage2(s, planet, models) ==
  LET Returns(earthSimilarity, phi) ==
        [seed |-> phi.seed, earthSimilarity |-> earthSimilarity,
         phiLikelihood |-> phi.phiLikelihood]
      Scores(atm) ==
        Returns(atm.earthSimilarity, runPhiMLP(atm.seed, planet, atm.earthSimilarity, models))
  IN  Scores(predictAtmosphereAndSimilarity(s, planet))

\* A gate of runStage2 that passes the likelihoods up to the threshold.
Stage2GateBelow(phiLikelihood, thr) == phiLikelihood <= thr.phi

\* The gate of runStage2 (line 2055).
Stage2Gate(phiLikelihood, thr) == phiLikelihood >= thr.phi


(***************************************************************************)
(* Threshold input: parseFloat (line 2366) on the text of the input field. *)
(***************************************************************************)

\* The index of the first unit of str at or after i that is no
\* StrWhiteSpaceChar, the white space and line terminators parseFloat skips
\* before the number.
SkipWhiteSpace(str, i) ==
  LET IsStrWhiteSpace(c) ==
        \/ c \in {9, 10, 11, 12, 13, 32, 160, 5760, 8232, 8233, 8239, 8287, 12288, 65279}
        \/ c >= 8192 /\ c <= 8202
      stops == {j \in i .. Len(str) : ~IsStrWhiteSpace(str[j])}
  IN  IF stops # {} THEN CHOOSE j \in stops : \A k \in stops : j <= k
      ELSE IF i > Len(str) THEN i ELSE Len(str) + 1

\* The index after the run of decimal digits of str that starts at i.
DigitsEnd(str, i) ==
  LET stops == {j \in i .. Len(str) : str[j] < 48 \/ str[j] > 57}
  IN  IF stops # {} THEN CHOOSE j \in stops : \A k \in stops : j <= k
      ELSE IF i > Len(str) THEN i ELSE Len(str) + 1

RECURSIVE IntValue(_, _, _, _)
\* The number written by the digits str[i .. j - 1], after acc, up to a cap of
\* 1000000: with a text of fewer digits than the cap, a greater exponent gives
\* 0 or the greatest magnitude followed anyhow.
IntValue(str, i, j, acc) ==
  IF i >= j THEN acc
  ELSE LET next == acc * 10 + (str[i] - 48)
       IN  IntValue(str, i + 1, j, IF next > 1000000 THEN 1000000 ELSE next)

RECURSIVE UnitsValue(_, _, _, _)
\* The number written by the first n digits of digits from index i on, after
\* acc; digits missing at the end are zeros.
UnitsValue(digits, i, n, acc) ==
  IF n = 0 THEN acc
  ELSE UnitsValue(digits, i + 1, n - 1,
                  acc * 10 + (IF i <= Len(digits) THEN digits[i] - 48 ELSE 0))

\* -1, 0 or 1 as the digits a from index i on write less than, the same as, or
\* more than the digits b from i on, digits missing at the end being zeros.
CompareFrom(a, b, i) ==
  LET At(s, k) == IF k <= Len(s) THEN s[k] ELSE 48
      differ == {k \in i .. Max(Len(a), Len(b)) : At(a, k) # At(b, k)}
  IN  IF differ = {} THEN 0
      ELSE LET k == CHOOSE j \in differ : \A l \in differ : j <= l
           IN  IF At(a, k) < At(b, k) THEN -1 ELSE 1

\* The digits of 1 + 2^-53 and of 1 - 2^-54: the numbers from the second to the
\* first have 1 as their nearest double.
AboveOneDigits ==
  <<49, 48, 48, 48, 48, 48, 48, 48, 48, 48, 48, 48, 48, 48, 48, 48, 49, 49, 49, 48, 50, 50, 51, 48,
    50, 52, 54, 50, 53, 49, 53, 54, 53, 52, 48, 52, 50, 51, 54, 51, 49, 54, 54, 56, 48, 57, 48, 56,
    50, 48, 51, 49, 50, 53>>

BelowOneDigits ==
  <<57, 57, 57, 57, 57, 57, 57, 57, 57, 57, 57, 57, 57, 57, 57, 57, 52, 52, 52, 56, 56, 56, 52, 56,
    55, 54, 56, 55, 52, 50, 49, 55, 50, 57, 55, 56, 56, 49, 56, 52, 49, 54, 53, 57, 53, 52, 53, 56,
    57, 56, 52, 51, 55, 53>>

\* The 752 significant digits of 2^-1075 = 0.(323 zeros)2470...: the numbers up
\* to it, itself included, have 0 as their nearest double.
LeastDigits ==
  <<50, 52, 55, 48, 51, 50, 56, 50, 50, 57, 50, 48, 54, 50, 51, 50, 55, 50, 48, 56, 56, 50, 56, 52,
    51, 57, 54, 52, 51, 52, 49, 49, 48, 54, 56, 54, 49, 56, 50, 53, 50, 57, 57, 48, 49, 51, 48, 55,
    49, 54, 50, 51, 56, 50, 50, 49, 50, 55, 57, 50, 56, 52, 49, 50, 53, 48, 51, 51, 55, 55, 53, 51,
    54, 51, 53, 49, 48, 52, 51, 55, 53, 57, 51, 50, 54, 52, 57, 57, 49, 56, 49, 56, 48, 56, 49, 55,
    57, 57, 54, 49, 56, 57, 56, 57, 56, 50, 56, 50, 51, 52, 55, 55, 50, 50, 56, 53, 56, 56, 54, 53,
    52, 54, 51, 51, 50, 56, 51, 53, 53, 49, 55, 55, 57, 54, 57, 56, 57, 56, 49, 57, 57, 51, 56, 55,
    51, 57, 56, 48, 48, 53, 51, 57, 48, 57, 51, 57, 48, 54, 51, 49, 53, 48, 51, 53, 54, 53, 57, 53,
    49, 53, 53, 55, 48, 50, 50, 54, 51, 57, 50, 50, 57, 48, 56, 53, 56, 51, 57, 50, 52, 52, 57, 49,
    48, 53, 49, 56, 52, 52, 51, 53, 57, 51, 49, 56, 48, 50, 56, 52, 57, 57, 51, 54, 53, 51, 54, 49,
    53, 50, 53, 48, 48, 51, 49, 57, 51, 55, 48, 52, 53, 55, 54, 55, 56, 50, 52, 57, 50, 49, 57, 51,
    54, 53, 54, 50, 51, 54, 54, 57, 56, 54, 51, 54, 53, 56, 52, 56, 48, 55, 53, 55, 48, 48, 49, 53,
    56, 53, 55, 54, 57, 50, 54, 57, 57, 48, 51, 55, 48, 54, 51, 49, 49, 57, 50, 56, 50, 55, 57, 53,
    53, 56, 53, 53, 49, 51, 51, 50, 57, 50, 55, 56, 51, 52, 51, 51, 56, 52, 48, 57, 51, 53, 49, 57,
    55, 56, 48, 49, 53, 53, 51, 49, 50, 52, 54, 53, 57, 55, 50, 54, 51, 53, 55, 57, 53, 55, 52, 54,
    50, 50, 55, 54, 54, 52, 54, 53, 50, 55, 50, 56, 50, 55, 50, 50, 48, 48, 53, 54, 51, 55, 52, 48,
    48, 54, 52, 56, 53, 52, 57, 57, 57, 55, 55, 48, 57, 54, 53, 57, 57, 52, 55, 48, 52, 53, 52, 48,
    50, 48, 56, 50, 56, 49, 54, 54, 50, 50, 54, 50, 51, 55, 56, 53, 55, 51, 57, 51, 52, 53, 48, 55,
    51, 54, 51, 51, 57, 48, 48, 55, 57, 54, 55, 55, 54, 49, 57, 51, 48, 53, 55, 55, 53, 48, 54, 55,
    52, 48, 49, 55, 54, 51, 50, 52, 54, 55, 51, 54, 48, 48, 57, 54, 56, 57, 53, 49, 51, 52, 48, 53,
    51, 53, 53, 51, 55, 52, 53, 56, 53, 49, 54, 54, 54, 49, 49, 51, 52, 50, 50, 51, 55, 54, 54, 54,
    55, 56, 54, 48, 52, 49, 54, 50, 49, 53, 57, 54, 56, 48, 52, 54, 49, 57, 49, 52, 52, 54, 55, 50,
    57, 49, 56, 52, 48, 51, 48, 48, 53, 51, 48, 48, 53, 55, 53, 51, 48, 56, 52, 57, 48, 52, 56, 55,
    54, 53, 51, 57, 49, 55, 49, 49, 51, 56, 54, 53, 57, 49, 54, 52, 54, 50, 51, 57, 53, 50, 52, 57,
    49, 50, 54, 50, 51, 54, 53, 51, 56, 56, 49, 56, 55, 57, 54, 51, 54, 50, 51, 57, 51, 55, 51, 50,
    56, 48, 52, 50, 51, 56, 57, 49, 48, 49, 56, 54, 55, 50, 51, 52, 56, 52, 57, 55, 54, 54, 56, 50,
    51, 53, 48, 56, 57, 56, 54, 51, 51, 56, 56, 53, 56, 55, 57, 50, 53, 54, 50, 56, 51, 48, 50, 55,
    53, 53, 57, 57, 53, 54, 53, 55, 53, 50, 52, 52, 53, 53, 53, 48, 55, 50, 53, 53, 49, 56, 57, 51,
    49, 51, 54, 57, 48, 56, 51, 54, 50, 53, 52, 55, 55, 57, 49, 56, 54, 57, 52, 56, 54, 54, 55, 57,
    57, 52, 57, 54, 56, 51, 50, 52, 48, 52, 57, 55, 48, 53, 56, 50, 49, 48, 50, 56, 53, 49, 51, 49,
    56, 53, 52, 53, 49, 51, 57, 54, 50, 49, 51, 56, 51, 55, 55, 50, 50, 56, 50, 54, 49, 52, 53, 52,
    51, 55, 54, 57, 51, 52, 49, 50, 53, 51, 50, 48, 57, 56, 53, 57, 49, 51, 50, 55, 54, 54, 55, 50,
    51, 54, 51, 50, 56, 49, 50, 53>>

\* The magnitude written by the significant digits `digits' (the first is not
\* "0") with the decimal point after `point' of them: <<m, rest>>, m the
\* magnitude in units of 1 / SCALE, rounded down, and rest whether something
\* is left below m.  parseFloat returns the nearest double: a number that
\* rounds to the double 0 or the double 1 is read as that; a magnitude of
\* 100000 or more is read as 100000 with a remainder, the greatest magnitude
\* parseFloat is followed to.
Magnitude(digits, point) ==
  LET n == point + 4
      Saturated == 100000 * SCALE
      \* -1, 0 or 1 as the number is less than, the same as, or more than the
      \* one of the digits b with the decimal point after pointB of them.
      Compare(b, pointB) ==
        IF point < pointB THEN -1 ELSE IF point > pointB THEN 1
        ELSE CompareFrom(digits, b, 1)
  IN  IF digits = <<>> THEN <<0, FALSE>>
      ELSE IF Compare(LeastDigits, -323) <= 0 THEN <<0, FALSE>>
      ELSE IF Compare(BelowOneDigits, 0) >= 0 /\ Compare(AboveOneDigits, 1) <= 0
      THEN <<SCALE, FALSE>>
      ELSE IF n <= 0 THEN <<0, TRUE>>
      ELSE IF n >= 10 THEN <<Saturated, TRUE>>
      ELSE <<UnitsValue(digits, 1, n, 0),
             \E k \in DOMAIN digits : k > n /\ digits[k] # 48>>

\* parseFloat(str): <<>> for NaN, else <<v, r>>: v is the number in units of
\* 1 / SCALE, rounded towards 0, and r the sign of what the rounding dropped
\* (0 when v is the number).  It skips leading white space and reads the
\* longest prefix that is a StrDecimalLiteral: [+-] Infinity, or
\* [+-] digits [. digits] [(e|E) [+-] digits] with a digit before or after
\* the point.
parseFloat(str) ==
  LET InfinityText == <<73, 110, 102, 105, 110, 105, 116, 121>>  \* "Infinity"
      start == SkipWhiteSpace(str, 1)
      neg   == start <= Len(str) /\ str[start] = 45
      first == IF start <= Len(str) /\ (str[start] = 45 \/ str[start] = 43)
               THEN start + 1 ELSE start
      intEnd == DigitsEnd(str, first)
      hasDot == intEnd <= Len(str) /\ str[intEnd] = 46
      fracEnd == IF hasDot THEN DigitsEnd(str, intEnd + 1) ELSE intEnd
      nInt  == intEnd - first
      nFrac == IF hasDot THEN fracEnd - (intEnd + 1) ELSE 0
      hasE  == fracEnd <= Len(str) /\ str[fracEnd] \in {101, 69}
      expNeg == hasE /\ fracEnd + 1 <= Len(str) /\ str[fracEnd + 1] = 45
      expFirst == IF hasE /\ fracEnd + 1 <= Len(str) /\ str[fracEnd + 1] \in {45, 43}
                  THEN fracEnd + 2 ELSE fracEnd + 1
      expEnd == IF hasE THEN DigitsEnd(str, expFirst) ELSE expFirst
      exponent == IF hasE /\ expEnd > expFirst
                  THEN (IF expNeg THEN -1 ELSE 1) * IntValue(str, expFirst, expEnd, 0)
                  ELSE 0
      all == SubSeq(str, first, intEnd - 1)
             \o (IF hasDot THEN SubSeq(str, intEnd + 1, fracEnd - 1) ELSE <<>>)
      nonZero == {k \in DOMAIN all : all[k] # 48}
      zeros == IF nonZero = {} THEN Len(all)
               ELSE (CHOOSE k \in nonZero : \A j \in nonZero : k <= j) - 1
      isInfinity == /\ first + Len(InfinityText) - 1 <= Len(str)
                    /\ \A k \in DOMAIN InfinityText : str[first + k - 1] = InfinityText[k]
      mag == IF isInfinity THEN Magnitude(<<49>>, 10)  \* beyond every magnitude followed
             ELSE Magnitude(SubSeq(all, zeros + 1, Len(all)), nInt - zeros + exponent)
      sign == IF neg THEN -1 ELSE 1
  IN  IF nInt + nFrac = 0 /\ ~isInfinity THEN <<>>
      ELSE <<sign * mag[1], IF mag[2] THEN sign ELSE 0>>

\* A rejection test without the upper bound.
IsRejectedWithoutUpperBound(numericValue) ==
  \/ numericValue = <<>>
  \/ numericValue[1] < 0
  \/ numericValue[1] = 0 /\ numericValue[2] < 0

\* The rejection test of updateThreshold (line 2367).
IsRejected(numericValue) ==
  \/ numericValue = <<>>
  \/ numericValue[1] < 0
  \/ numericValue[1] = 0 /\ numericValue[2] < 0
  \/ numericValue[1] > SCALE
  \/ numericValue[1] = SCALE /\ numericValue[2] > 0


(***************************************************************************)
(* State.                                                                  *)
(***************************************************************************)

VARIABLES
  pipelineState,  \* the pipelineState object (lines 1649-1662)
  analysis,       \* planet.analysis of every catalog record
  prng_seed,      \* the state of the shared generator (line 10)
  fetchTimer,     \* the timeout fetchData sets (line 1907) is pending
  runs,           \* the per-planet async callbacks of each runFullPipeline call
  microtasks,     \* the queue of promise jobs, in the order they were queued
  statusBar,      \* the four counts shown in #pipeline-status-bar (lines 1952-1960)
  call,           \* the call of a pure function under study: its input and its result
  ghost           \* history the properties refer to: which run wrote what, and when

vars == <<pipelineState, analysis, prng_seed, fetchTimer, runs, microtasks, statusBar, call, ghost>>

\* Calls of runFullPipeline explored in one behaviour.
MaxRuns == 2

RunIds == 1 .. MaxRuns

Range(seq) == {seq[i] : i \in DOMAIN seq}

\* planet.analysis before any run has assigned it.
Undefined == [undefined |-> TRUE]

\* A disabled analysis that counts as a pass.
DisabledAsPassed ==
  [stage1 |-> [error |-> "AI models disabled", passed |-> TRUE],
   stage2 |-> [error |-> "AI models disabled"]]

\* What runFullPipeline assigns when isTfReady is false (line 1916).
Disabled ==
  [stage1 |-> [error |-> "AI models disabled"], stage2 |-> [error |-> "AI models disabled"]]

\* An initial stage2 under another status.
NotRunAsEvaluated == [status |-> "Evaluated"]

\* The initial stage2 of a callback (line 1926).
NotRun == [status |-> "Not Run"]

\* A callback that is not running: never started, or its run has settled.
IdleTask == [pc |-> "none"]

\* A callback that has assigned planet.analysis and returned: its promise is
\* fulfilled, and Promise.all is still to take it.
DoneTask == [pc |-> "done"]

\* A stage-1 filter that asks only for a stage-1 verdict, whatever it is.
Stage1Judged(a) ==
  "stage1" \in DOMAIN a /\ "passed" \in DOMAIN a.stage1

\* p.analysis?.stage1.passed, as a condition
Stage1Passed(a) ==
  "stage1" \in DOMAIN a /\ "passed" \in DOMAIN a.stage1 /\ a.stage1.passed

\* p.analysis?.stage2.passed, as a condition
Stage2Passed(a) ==
  "stage2" \in DOMAIN a /\ "passed" \in DOMAIN a.stage2 /\ a.stage2.passed

(***************************************************************************)
(* renderTable's in-place sort (lines 2198-2211).                          *)
(***************************************************************************)

RECURSIVE SeqLess(_, _, _)
\* a < b on strings: by code units from index i on, a proper prefix first.
SeqLess(a, b, i) ==
  IF i > Len(b) THEN FALSE
  ELSE IF i > Len(a) THEN TRUE
  ELSE IF a[i] # b[i] THEN a[i] < b[i]
  ELSE SeqLess(a, b, i + 1)

\* getNestedValue(p, key) ?? -1 for the numeric keys.
NumericSortValue(a, key) ==
  IF key = "analysis.stage1.esi.aggregate"
  THEN IF "stage1" \in DOMAIN a /\ "esi" \in DOMAIN a.stage1 THEN a.stage1.esi.aggregate ELSE -1
  ELSE IF key = "analysis.stage1.lcScore"
  THEN IF "stage1" \in DOMAIN a /\ "lcScore" \in DOMAIN a.stage1 THEN a.stage1.lcScore ELSE -1
  ELSE IF key = "analysis.stage2.phiLikelihood"
  THEN IF "stage2" \in DOMAIN a /\ "phiLikelihood" \in DOMAIN a.stage2
       THEN a.stage2.phiLikelihood ELSE -1
  ELSE -1

\* valA < valB of the comparator, for planets pa and pb.
ValueLess(pa, pb, an, key) ==
  IF key = "pl_name" THEN SeqLess(planetData[pa].pl_name, planetData[pb].pl_name, 1)
  ELSE NumericSortValue(an[pa], key) < NumericSortValue(an[pb], key)

\* The comparator returns a negative number: pa is ordered before pb.
SortsBefore(pa, pb, an, sort) ==
  IF sort.order = "asc" THEN ValueLess(pa, pb, an, sort.key)
  ELSE ValueLess(pb, pa, an, sort.key)

RECURSIVE InsertSorted(_, _, _, _, _)
\* x put into the sorted sequence before the first element it sorts before.
InsertSorted(sorted, x, i, an, sort) ==
  IF i > Len(sorted) THEN Append(sorted, x)
  ELSE IF SortsBefore(x, sorted[i], an, sort)
  THEN SubSeq(sorted, 1, i - 1) \o <<x>> \o SubSeq(sorted, i, Len(sorted))
  ELSE InsertSorted(sorted, x, i + 1, an, sort)

RECURSIVE SortGo(_, _, _, _, _)
SortGo(data, i, sorted, an, sort) ==
  IF i > Len(data) THEN sorted
  ELSE SortGo(data, i + 1, InsertSorted(sorted, data[i], 1, an, sort), an, sort)

\* A sort that orders upwards whatever sort.order says.
SortDataUpwards(data, an, sort) == SortGo(data, 1, <<>>, an, [sort EXCEPT !.order = "asc"])

\* Array.prototype.sort with the comparator of line 2205: a stable sort.
SortData(data, an, sort) == SortGo(data, 1, <<>>, an, sort)

\* The tab ids of renderTabs (lines 2159-2164).
Tabs == {"all", "stage1Passed", "stage2Evaluated", "finalShortlist"}

\* pipelineState[pipelineState.activeTab] || []: pipelineState has no
\* property "all" (the catalog is allData), so that tab reads [].
ActiveData(pipe) ==
  IF pipe.activeTab = "stage1Passed" THEN pipe.stage1Passed
  ELSE IF pipe.activeTab = "stage2Evaluated" THEN pipe.stage2Evaluated
  ELSE IF pipe.activeTab = "finalShortlist" THEN pipe.finalShortlist
  ELSE <<>>

RECURSIVE IncludesAt(_, _, _, _)
\* needle occurs in hay at an index >= i; its first j - 1 units match at i.
IncludesAt(hay, needle, i, j) ==
  IF j > Len(needle) THEN TRUE
  ELSE IF i + j - 1 > Len(hay) THEN FALSE
  ELSE IF hay[i + j - 1] = needle[j] THEN IncludesAt(hay, needle, i, j + 1)
  ELSE IncludesAt(hay, needle, i + 1, 1)

\* String.prototype.includes
Includes(hay, needle) == IncludesAt(hay, needle, 1, 1)

(***************************************************************************)
(* String.prototype.toLowerCase (line 1820).  A string is its UTF-16 code  *)
(* units; toLowerCase reads them as code points, maps each by the Unicode  *)
(* Default Case Conversion (the tables are those of Unicode 17.0) with the *)
(* language-independent rules of SpecialCasing, and writes the code units  *)
(* of the result.                                                          *)
(***************************************************************************)

\* The code points with a lower-case mapping to one other code point, in runs
\* <<first, last, step, delta>>: first, first + step, ..., last map to
\* themselves plus delta.
LowerCaseRuns ==
  << <<65, 90, 1, 32>>, <<192, 214, 1, 32>>, <<216, 222, 1, 32>>, <<256, 302, 2, 1>>,
     <<306, 310, 2, 1>>, <<313, 327, 2, 1>>, <<330, 374, 2, 1>>, <<376, 376, 1, -121>>,
     <<377, 381, 2, 1>>, <<385, 385, 1, 210>>, <<386, 388, 2, 1>>, <<390, 390, 1, 206>>,
     <<391, 391, 1, 1>>, <<393, 394, 1, 205>>, <<395, 395, 1, 1>>, <<398, 398, 1, 79>>,
     <<399, 399, 1, 202>>, <<400, 400, 1, 203>>, <<401, 401, 1, 1>>, <<403, 403, 1, 205>>,
     <<404, 404, 1, 207>>, <<406, 406, 1, 211>>, <<407, 407, 1, 209>>, <<408, 408, 1, 1>>,
     <<412, 412, 1, 211>>, <<413, 413, 1, 213>>, <<415, 415, 1, 214>>, <<416, 420, 2, 1>>,
     <<422, 422, 1, 218>>, <<423, 423, 1, 1>>, <<425, 425, 1, 218>>, <<428, 428, 1, 1>>,
     <<430, 430, 1, 218>>, <<431, 431, 1, 1>>, <<433, 434, 1, 217>>, <<435, 437, 2, 1>>,
     <<439, 439, 1, 219>>, <<440, 440, 1, 1>>, <<444, 444, 1, 1>>, <<452, 452, 1, 2>>,
     <<453, 453, 1, 1>>, <<455, 455, 1, 2>>, <<456, 456, 1, 1>>, <<458, 458, 1, 2>>,
     <<459, 475, 2, 1>>, <<478, 494, 2, 1>>, <<497, 497, 1, 2>>, <<498, 500, 2, 1>>,
     <<502, 502, 1, -97>>, <<503, 503, 1, -56>>, <<504, 542, 2, 1>>, <<544, 544, 1, -130>>,
     <<546, 562, 2, 1>>, <<570, 570, 1, 10795>>, <<571, 571, 1, 1>>, <<573, 573, 1, -163>>,
     <<574, 574, 1, 10792>>, <<577, 577, 1, 1>>, <<579, 579, 1, -195>>, <<580, 580, 1, 69>>,
     <<581, 581, 1, 71>>, <<582, 590, 2, 1>>, <<880, 882, 2, 1>>, <<886, 886, 1, 1>>,
     <<895, 895, 1, 116>>, <<902, 902, 1, 38>>, <<904, 906, 1, 37>>, <<908, 908, 1, 64>>,
     <<910, 911, 1, 63>>, <<913, 929, 1, 32>>, <<931, 939, 1, 32>>, <<975, 975, 1, 8>>,
     <<984, 1006, 2, 1>>, <<1012, 1012, 1, -60>>, <<1015, 1015, 1, 1>>, <<1017, 1017, 1, -7>>,
     <<1018, 1018, 1, 1>>, <<1021, 1023, 1, -130>>, <<1024, 1039, 1, 80>>, <<1040, 1071, 1, 32>>,
     <<1120, 1152, 2, 1>>, <<1162, 1214, 2, 1>>, <<1216, 1216, 1, 15>>, <<1217, 1229, 2, 1>>,
     <<1232, 1326, 2, 1>>, <<1329, 1366, 1, 48>>, <<4256, 4293, 1, 7264>>, <<4295, 4295, 1, 7264>>,
     <<4301, 4301, 1, 7264>>, <<5024, 5103, 1, 38864>>, <<5104, 5109, 1, 8>>, <<7305, 7305, 1, 1>>,
     <<7312, 7354, 1, -3008>>, <<7357, 7359, 1, -3008>>, <<7680, 7828, 2, 1>>, <<7838, 7838, 1, -7615>>,
     <<7840, 7934, 2, 1>>, <<7944, 7951, 1, -8>>, <<7960, 7965, 1, -8>>, <<7976, 7983, 1, -8>>,
     <<7992, 7999, 1, -8>>, <<8008, 8013, 1, -8>>, <<8025, 8031, 2, -8>>, <<8040, 8047, 1, -8>>,
     <<8072, 8079, 1, -8>>, <<8088, 8095, 1, -8>>, <<8104, 8111, 1, -8>>, <<8120, 8121, 1, -8>>,
     <<8122, 8123, 1, -74>>, <<8124, 8124, 1, -9>>, <<8136, 8139, 1, -86>>, <<8140, 8140, 1, -9>>,
     <<8152, 8153, 1, -8>>, <<8154, 8155, 1, -100>>, <<8168, 8169, 1, -8>>, <<8170, 8171, 1, -112>>,
     <<8172, 8172, 1, -7>>, <<8184, 8185, 1, -128>>, <<8186, 8187, 1, -126>>, <<8188, 8188, 1, -9>>,
     <<8486, 8486, 1, -7517>>, <<8490, 8490, 1, -8383>>, <<8491, 8491, 1, -8262>>, <<8498, 8498, 1, 28>>,
     <<8544, 8559, 1, 16>>, <<8579, 8579, 1, 1>>, <<9398, 9423, 1, 26>>, <<11264, 11311, 1, 48>>,
     <<11360, 11360, 1, 1>>, <<11362, 11362, 1, -10743>>, <<11363, 11363, 1, -3814>>, <<11364, 11364, 1, -10727>>,
     <<11367, 11371, 2, 1>>, <<11373, 11373, 1, -10780>>, <<11374, 11374, 1, -10749>>, <<11375, 11375, 1, -10783>>,
     <<11376, 11376, 1, -10782>>, <<11378, 11378, 1, 1>>, <<11381, 11381, 1, 1>>, <<11390, 11391, 1, -10815>>,
     <<11392, 11490, 2, 1>>, <<11499, 11501, 2, 1>>, <<11506, 11506, 1, 1>>, <<42560, 42604, 2, 1>>,
     <<42624, 42650, 2, 1>>, <<42786, 42798, 2, 1>>, <<42802, 42862, 2, 1>>, <<42873, 42875, 2, 1>>,
     <<42877, 42877, 1, -35332>>, <<42878, 42886, 2, 1>>, <<42891, 42891, 1, 1>>, <<42893, 42893, 1, -42280>>,
     <<42896, 42898, 2, 1>>, <<42902, 42920, 2, 1>>, <<42922, 42922, 1, -42308>>, <<42923, 42923, 1, -42319>>,
     <<42924, 42924, 1, -42315>>, <<42925, 42925, 1, -42305>>, <<42926, 42926, 1, -42308>>, <<42928, 42928, 1, -42258>>,
     <<42929, 42929, 1, -42282>>, <<42930, 42930, 1, -42261>>, <<42931, 42931, 1, 928>>, <<42932, 42946, 2, 1>>,
     <<42948, 42948, 1, -48>>, <<42949, 42949, 1, -42307>>, <<42950, 42950, 1, -35384>>, <<42951, 42953, 2, 1>>,
     <<42955, 42955, 1, -42343>>, <<42956, 42970, 2, 1>>, <<42972, 42972, 1, -42561>>, <<42997, 42997, 1, 1>>,
     <<65313, 65338, 1, 32>>, <<66560, 66599, 1, 40>>, <<66736, 66771, 1, 40>>, <<66928, 66964, 2, 39>>,
     <<66929, 66937, 2, 39>>, <<66941, 66953, 2, 39>>, <<66957, 66961, 2, 39>>, <<66965, 66965, 1, 39>>,
     <<68736, 68786, 1, 64>>, <<68944, 68965, 1, 32>>, <<71840, 71871, 1, 32>>, <<93760, 93791, 1, 32>>,
     <<93856, 93880, 1, 27>>, <<125184, 125217, 1, 34>> >>

\* The cased code points that are not case-ignorable, in ranges <<first, last>>.
CasedRanges ==
  << <<65, 90>>, <<97, 122>>, <<170, 170>>, <<181, 181>>, <<186, 186>>, <<192, 214>>,
     <<216, 246>>, <<248, 442>>, <<444, 447>>, <<452, 659>>, <<662, 687>>, <<880, 883>>,
     <<886, 887>>, <<891, 893>>, <<895, 895>>, <<902, 902>>, <<904, 906>>, <<908, 908>>,
     <<910, 929>>, <<931, 1013>>, <<1015, 1153>>, <<1162, 1327>>, <<1329, 1366>>, <<1376, 1416>>,
     <<4256, 4293>>, <<4295, 4295>>, <<4301, 4301>>, <<4304, 4346>>, <<4349, 4351>>, <<5024, 5109>>,
     <<5112, 5117>>, <<7296, 7306>>, <<7312, 7354>>, <<7357, 7359>>, <<7424, 7467>>, <<7531, 7543>>,
     <<7545, 7578>>, <<7680, 7957>>, <<7960, 7965>>, <<7968, 8005>>, <<8008, 8013>>, <<8016, 8023>>,
     <<8025, 8025>>, <<8027, 8027>>, <<8029, 8029>>, <<8031, 8061>>, <<8064, 8116>>, <<8118, 8124>>,
     <<8126, 8126>>, <<8130, 8132>>, <<8134, 8140>>, <<8144, 8147>>, <<8150, 8155>>, <<8160, 8172>>,
     <<8178, 8180>>, <<8182, 8188>>, <<8450, 8450>>, <<8455, 8455>>, <<8458, 8467>>, <<8469, 8469>>,
     <<8473, 8477>>, <<8484, 8484>>, <<8486, 8486>>, <<8488, 8488>>, <<8490, 8493>>, <<8495, 8500>>,
     <<8505, 8505>>, <<8508, 8511>>, <<8517, 8521>>, <<8526, 8526>>, <<8544, 8575>>, <<8579, 8580>>,
     <<9398, 9449>>, <<11264, 11387>>, <<11390, 11492>>, <<11499, 11502>>, <<11506, 11507>>, <<11520, 11557>>,
     <<11559, 11559>>, <<11565, 11565>>, <<42560, 42605>>, <<42624, 42651>>, <<42786, 42863>>, <<42865, 42887>>,
     <<42891, 42894>>, <<42896, 42972>>, <<42997, 42998>>, <<43002, 43002>>, <<43824, 43866>>, <<43872, 43880>>,
     <<43888, 43967>>, <<64256, 64262>>, <<64275, 64279>>, <<65313, 65338>>, <<65345, 65370>>, <<66560, 66639>>,
     <<66736, 66771>>, <<66776, 66811>>, <<66928, 66938>>, <<66940, 66954>>, <<66956, 66962>>, <<66964, 66965>>,
     <<66967, 66977>>, <<66979, 66993>>, <<66995, 67001>>, <<67003, 67004>>, <<68736, 68786>>, <<68800, 68850>>,
     <<68944, 68965>>, <<68976, 68997>>, <<71840, 71903>>, <<93760, 93823>>, <<93856, 93880>>, <<93883, 93907>>,
     <<119808, 119892>>, <<119894, 119964>>, <<119966, 119967>>, <<119970, 119970>>, <<119973, 119974>>, <<119977, 119980>>,
     <<119982, 119993>>, <<119995, 119995>>, <<119997, 120003>>, <<120005, 120069>>, <<120071, 120074>>, <<120077, 120084>>,
     <<120086, 120092>>, <<120094, 120121>>, <<120123, 120126>>, <<120128, 120132>>, <<120134, 120134>>, <<120138, 120144>>,
     <<120146, 120485>>, <<120488, 120512>>, <<120514, 120538>>, <<120540, 120570>>, <<120572, 120596>>, <<120598, 120628>>,
     <<120630, 120654>>, <<120656, 120686>>, <<120688, 120712>>, <<120714, 120744>>, <<120746, 120770>>, <<120772, 120779>>,
     <<122624, 122633>>, <<122635, 122654>>, <<122661, 122666>>, <<125184, 125251>>, <<127280, 127305>>, <<127312, 127337>>,
     <<127344, 127369>> >>

\* The case-ignorable code points, in ranges <<first, last>>.
CaseIgnorableRanges ==
  << <<39, 39>>, <<46, 46>>, <<58, 58>>, <<94, 94>>, <<96, 96>>, <<168, 168>>,
     <<173, 173>>, <<175, 175>>, <<180, 180>>, <<183, 184>>, <<688, 879>>, <<884, 885>>,
     <<890, 890>>, <<900, 901>>, <<903, 903>>, <<1155, 1161>>, <<1369, 1369>>, <<1375, 1375>>,
     <<1425, 1469>>, <<1471, 1471>>, <<1473, 1474>>, <<1476, 1477>>, <<1479, 1479>>, <<1524, 1524>>,
     <<1536, 1541>>, <<1552, 1562>>, <<1564, 1564>>, <<1600, 1600>>, <<1611, 1631>>, <<1648, 1648>>,
     <<1750, 1757>>, <<1759, 1768>>, <<1770, 1773>>, <<1807, 1807>>, <<1809, 1809>>, <<1840, 1866>>,
     <<1958, 1968>>, <<2027, 2037>>, <<2042, 2042>>, <<2045, 2045>>, <<2070, 2093>>, <<2137, 2139>>,
     <<2184, 2184>>, <<2192, 2193>>, <<2199, 2207>>, <<2249, 2306>>, <<2362, 2362>>, <<2364, 2364>>,
     <<2369, 2376>>, <<2381, 2381>>, <<2385, 2391>>, <<2402, 2403>>, <<2417, 2417>>, <<2433, 2433>>,
     <<2492, 2492>>, <<2497, 2500>>, <<2509, 2509>>, <<2530, 2531>>, <<2558, 2558>>, <<2561, 2562>>,
     <<2620, 2620>>, <<2625, 2626>>, <<2631, 2632>>, <<2635, 2637>>, <<2641, 2641>>, <<2672, 2673>>,
     <<2677, 2677>>, <<2689, 2690>>, <<2748, 2748>>, <<2753, 2757>>, <<2759, 2760>>, <<2765, 2765>>,
     <<2786, 2787>>, <<2810, 2815>>, <<2817, 2817>>, <<2876, 2876>>, <<2879, 2879>>, <<2881, 2884>>,
     <<2893, 2893>>, <<2901, 2902>>, <<2914, 2915>>, <<2946, 2946>>, <<3008, 3008>>, <<3021, 3021>>,
     <<3072, 3072>>, <<3076, 3076>>, <<3132, 3132>>, <<3134, 3136>>, <<3142, 3144>>, <<3146, 3149>>,
     <<3157, 3158>>, <<3170, 3171>>, <<3201, 3201>>, <<3260, 3260>>, <<3263, 3263>>, <<3270, 3270>>,
     <<3276, 3277>>, <<3298, 3299>>, <<3328, 3329>>, <<3387, 3388>>, <<3393, 3396>>, <<3405, 3405>>,
     <<3426, 3427>>, <<3457, 3457>>, <<3530, 3530>>, <<3538, 3540>>, <<3542, 3542>>, <<3633, 3633>>,
     <<3636, 3642>>, <<3654, 3662>>, <<3761, 3761>>, <<3764, 3772>>, <<3782, 3782>>, <<3784, 3790>>,
     <<3864, 3865>>, <<3893, 3893>>, <<3895, 3895>>, <<3897, 3897>>, <<3953, 3966>>, <<3968, 3972>>,
     <<3974, 3975>>, <<3981, 3991>>, <<3993, 4028>>, <<4038, 4038>>, <<4141, 4144>>, <<4146, 4151>>,
     <<4153, 4154>>, <<4157, 4158>>, <<4184, 4185>>, <<4190, 4192>>, <<4209, 4212>>, <<4226, 4226>>,
     <<4229, 4230>>, <<4237, 4237>>, <<4253, 4253>>, <<4348, 4348>>, <<4957, 4959>>, <<5906, 5908>>,
     <<5938, 5939>>, <<5970, 5971>>, <<6002, 6003>>, <<6068, 6069>>, <<6071, 6077>>, <<6086, 6086>>,
     <<6089, 6099>>, <<6103, 6103>>, <<6109, 6109>>, <<6155, 6159>>, <<6211, 6211>>, <<6277, 6278>>,
     <<6313, 6313>>, <<6432, 6434>>, <<6439, 6440>>, <<6450, 6450>>, <<6457, 6459>>, <<6679, 6680>>,
     <<6683, 6683>>, <<6742, 6742>>, <<6744, 6750>>, <<6752, 6752>>, <<6754, 6754>>, <<6757, 6764>>,
     <<6771, 6780>>, <<6783, 6783>>, <<6823, 6823>>, <<6832, 6877>>, <<6880, 6891>>, <<6912, 6915>>,
     <<6964, 6964>>, <<6966, 6970>>, <<6972, 6972>>, <<6978, 6978>>, <<7019, 7027>>, <<7040, 7041>>,
     <<7074, 7077>>, <<7080, 7081>>, <<7083, 7085>>, <<7142, 7142>>, <<7144, 7145>>, <<7149, 7149>>,
     <<7151, 7153>>, <<7212, 7219>>, <<7222, 7223>>, <<7288, 7293>>, <<7376, 7378>>, <<7380, 7392>>,
     <<7394, 7400>>, <<7405, 7405>>, <<7412, 7412>>, <<7416, 7417>>, <<7468, 7530>>, <<7544, 7544>>,
     <<7579, 7679>>, <<8125, 8125>>, <<8127, 8129>>, <<8141, 8143>>, <<8157, 8159>>, <<8173, 8175>>,
     <<8189, 8190>>, <<8203, 8207>>, <<8216, 8217>>, <<8228, 8228>>, <<8231, 8231>>, <<8234, 8238>>,
     <<8288, 8292>>, <<8294, 8303>>, <<8305, 8305>>, <<8319, 8319>>, <<8336, 8348>>, <<8400, 8432>>,
     <<11388, 11389>>, <<11503, 11505>>, <<11631, 11631>>, <<11647, 11647>>, <<11744, 11775>>, <<11823, 11823>>,
     <<12293, 12293>>, <<12330, 12333>>, <<12337, 12341>>, <<12347, 12347>>, <<12441, 12446>>, <<12540, 12542>>,
     <<40981, 40981>>, <<42232, 42237>>, <<42508, 42508>>, <<42607, 42610>>, <<42612, 42621>>, <<42623, 42623>>,
     <<42652, 42655>>, <<42736, 42737>>, <<42752, 42785>>, <<42864, 42864>>, <<42888, 42890>>, <<42993, 42996>>,
     <<43000, 43001>>, <<43010, 43010>>, <<43014, 43014>>, <<43019, 43019>>, <<43045, 43046>>, <<43052, 43052>>,
     <<43204, 43205>>, <<43232, 43249>>, <<43263, 43263>>, <<43302, 43309>>, <<43335, 43345>>, <<43392, 43394>>,
     <<43443, 43443>>, <<43446, 43449>>, <<43452, 43453>>, <<43471, 43471>>, <<43493, 43494>>, <<43561, 43566>>,
     <<43569, 43570>>, <<43573, 43574>>, <<43587, 43587>>, <<43596, 43596>>, <<43632, 43632>>, <<43644, 43644>>,
     <<43696, 43696>>, <<43698, 43700>>, <<43703, 43704>>, <<43710, 43711>>, <<43713, 43713>>, <<43741, 43741>>,
     <<43756, 43757>>, <<43763, 43764>>, <<43766, 43766>>, <<43867, 43871>>, <<43881, 43883>>, <<44005, 44005>>,
     <<44008, 44008>>, <<44013, 44013>>, <<64286, 64286>>, <<64434, 64450>>, <<65024, 65039>>, <<65043, 65043>>,
     <<65056, 65071>>, <<65106, 65106>>, <<65109, 65109>>, <<65279, 65279>>, <<65287, 65287>>, <<65294, 65294>>,
     <<65306, 65306>>, <<65342, 65342>>, <<65344, 65344>>, <<65392, 65392>>, <<65438, 65439>>, <<65507, 65507>>,
     <<65529, 65531>>, <<66045, 66045>>, <<66272, 66272>>, <<66422, 66426>>, <<67456, 67461>>, <<67463, 67504>>,
     <<67506, 67514>>, <<68097, 68099>>, <<68101, 68102>>, <<68108, 68111>>, <<68152, 68154>>, <<68159, 68159>>,
     <<68325, 68326>>, <<68900, 68903>>, <<68942, 68942>>, <<68969, 68973>>, <<68975, 68975>>, <<69291, 69292>>,
     <<69317, 69317>>, <<69370, 69375>>, <<69446, 69456>>, <<69506, 69509>>, <<69633, 69633>>, <<69688, 69702>>,
     <<69744, 69744>>, <<69747, 69748>>, <<69759, 69761>>, <<69811, 69814>>, <<69817, 69818>>, <<69821, 69821>>,
     <<69826, 69826>>, <<69837, 69837>>, <<69888, 69890>>, <<69927, 69931>>, <<69933, 69940>>, <<70003, 70003>>,
     <<70016, 70017>>, <<70070, 70078>>, <<70089, 70092>>, <<70095, 70095>>, <<70191, 70193>>, <<70196, 70196>>,
     <<70198, 70199>>, <<70206, 70206>>, <<70209, 70209>>, <<70367, 70367>>, <<70371, 70378>>, <<70400, 70401>>,
     <<70459, 70460>>, <<70464, 70464>>, <<70502, 70508>>, <<70512, 70516>>, <<70587, 70592>>, <<70606, 70606>>,
     <<70608, 70608>>, <<70610, 70610>>, <<70625, 70626>>, <<70712, 70719>>, <<70722, 70724>>, <<70726, 70726>>,
     <<70750, 70750>>, <<70835, 70840>>, <<70842, 70842>>, <<70847, 70848>>, <<70850, 70851>>, <<71090, 71093>>,
     <<71100, 71101>>, <<71103, 71104>>, <<71132, 71133>>, <<71219, 71226>>, <<71229, 71229>>, <<71231, 71232>>,
     <<71339, 71339>>, <<71341, 71341>>, <<71344, 71349>>, <<71351, 71351>>, <<71453, 71453>>, <<71455, 71455>>,
     <<71458, 71461>>, <<71463, 71467>>, <<71727, 71735>>, <<71737, 71738>>, <<71995, 71996>>, <<71998, 71998>>,
     <<72003, 72003>>, <<72148, 72151>>, <<72154, 72155>>, <<72160, 72160>>, <<72193, 72202>>, <<72243, 72248>>,
     <<72251, 72254>>, <<72263, 72263>>, <<72273, 72278>>, <<72281, 72283>>, <<72330, 72342>>, <<72344, 72345>>,
     <<72544, 72544>>, <<72546, 72548>>, <<72550, 72550>>, <<72752, 72758>>, <<72760, 72765>>, <<72767, 72767>>,
     <<72850, 72871>>, <<72874, 72880>>, <<72882, 72883>>, <<72885, 72886>>, <<73009, 73014>>, <<73018, 73018>>,
     <<73020, 73021>>, <<73023, 73029>>, <<73031, 73031>>, <<73104, 73105>>, <<73109, 73109>>, <<73111, 73111>>,
     <<73177, 73177>>, <<73459, 73460>>, <<73472, 73473>>, <<73526, 73530>>, <<73536, 73536>>, <<73538, 73538>>,
     <<73562, 73562>>, <<78896, 78912>>, <<78919, 78933>>, <<90398, 90409>>, <<90413, 90415>>, <<92912, 92916>>,
     <<92976, 92982>>, <<92992, 92995>>, <<93504, 93506>>, <<93547, 93548>>, <<94031, 94031>>, <<94095, 94111>>,
     <<94176, 94177>>, <<94179, 94180>>, <<94194, 94195>>, <<110576, 110579>>, <<110581, 110587>>, <<110589, 110590>>,
     <<113821, 113822>>, <<113824, 113827>>, <<118528, 118573>>, <<118576, 118598>>, <<119143, 119145>>, <<119155, 119170>>,
     <<119173, 119179>>, <<119210, 119213>>, <<119362, 119364>>, <<121344, 121398>>, <<121403, 121452>>, <<121461, 121461>>,
     <<121476, 121476>>, <<121499, 121503>>, <<121505, 121519>>, <<122880, 122886>>, <<122888, 122904>>, <<122907, 122913>>,
     <<122915, 122916>>, <<122918, 122922>>, <<122928, 122989>>, <<123023, 123023>>, <<123184, 123197>>, <<123566, 123566>>,
     <<123628, 123631>>, <<124139, 124143>>, <<124398, 124399>>, <<124643, 124643>>, <<124646, 124646>>, <<124654, 124655>>,
     <<124661, 124661>>, <<124671, 124671>>, <<125136, 125142>>, <<125252, 125259>>, <<127995, 127999>>, <<917505, 917505>>,
     <<917536, 917631>>, <<917760, 917999>> >>

RECURSIVE CodePoints(_, _)
\* The code points of the code units of str from index i on: a leading
\* surrogate followed by a trailing one is one code point, every other unit
\* is its own.
CodePoints(str, i) ==
  IF i > Len(str) THEN <<>>
  ELSE IF /\ i < Len(str)
          /\ str[i] >= 55296 /\ str[i] <= 56319
          /\ str[i + 1] >= 56320 /\ str[i + 1] <= 57343
  THEN <<65536 + (str[i] - 55296) * 1024 + (str[i + 1] - 56320)>> \o CodePoints(str, i + 2)
  ELSE <<str[i]>> \o CodePoints(str, i + 1)

RECURSIVE CodeUnits(_, _)
\* The UTF-16 code units of the code points from index i on.
CodeUnits(points, i) ==
  IF i > Len(points) THEN <<>>
  ELSE IF points[i] >= 65536
  THEN <<55296 + ((points[i] - 65536) \div 1024), 56320 + ((points[i] - 65536) % 1024)>>
         \o CodeUnits(points, i + 1)
  ELSE <<points[i]>> \o CodeUnits(points, i + 1)

RECURSIVE CasedFrom(_, _, _)
\* Going from index i by `step' (-1 back, 1 on) over the case-ignorable code
\* points, a cased one is met.
CasedFrom(points, i, step) ==
  LET InRanges(c, ranges) == \E k \in DOMAIN ranges : ranges[k][1] <= c /\ c <= ranges[k][2]
  IN  IF i < 1 \/ i > Len(points) THEN FALSE
      ELSE IF InRanges(points[i], CaseIgnorableRanges) THEN CasedFrom(points, i + step, step)
      ELSE InRanges(points[i], CasedRanges)

\* The lower case of the code point at index i: U+0130 becomes "i" and a
\* combining dot above, a capital sigma at the end of a word the final sigma.
LowerCasePoint(points, i) ==
  LET c == points[i]
      InRun(x, run) == run[1] <= x /\ x <= run[2] /\ (x - run[1]) % run[3] = 0
  IN  IF c < 128 THEN IF c >= 65 /\ c <= 90 THEN <<c + 32>> ELSE <<c>>
      ELSE IF c = 304 THEN <<105, 775>>
      ELSE IF c = 931
      THEN IF CasedFrom(points, i - 1, -1) /\ ~CasedFrom(points, i + 1, 1) THEN <<962>> ELSE <<963>>
      ELSE IF \E k \in DOMAIN LowerCaseRuns : InRun(c, LowerCaseRuns[k])
      THEN <<c + LowerCaseRuns[CHOOSE k \in DOMAIN LowerCaseRuns : InRun(c, LowerCaseRuns[k])][4]>>
      ELSE <<c>>

\* String.prototype.toLowerCase.
toLowerCase(str) ==
  LET RECURSIVE LowerCasePoints(_, _)
      \* The lower case of the code points from index i on.
      LowerCasePoints(points, i) ==
        IF i > Len(points) THEN <<>>
        ELSE LowerCasePoint(points, i) \o LowerCasePoints(points, i + 1)
  IN  IF \A i \in DOMAIN str : str[i] < 128
      THEN [i \in DOMAIN str |-> IF str[i] >= 65 /\ str[i] <= 90 THEN str[i] + 32 ELSE str[i]]
      ELSE CodeUnits(LowerCasePoints(CodePoints(str, 1), 1), 1)

\* The rows renderTable shows: the active data, searched and sorted.
TableRows(pipe, an) ==
  LET data == ActiveData(pipe)
      Matches(p) == Includes(toLowerCase(planetData[p].pl_name), pipe.searchQuery)
      searched == IF pipe.searchQuery # <<>> THEN SelectSeq(data, Matches) ELSE data
  IN  SortData(searched, an, pipe.sort)

\* A renderTable whose All tab reads the catalog array and sorts it in place.
renderTableOfCatalog(pipe, an) ==
  IF pipe.searchQuery # <<>> THEN pipe
  ELSE IF pipe.activeTab \in {"stage1Passed", "stage2Evaluated"}
  THEN [pipe EXCEPT !.stage1Passed = SortData(@, an, pipe.sort),
                    !.stage2Evaluated = SortData(@, an, pipe.sort)]
  ELSE IF pipe.activeTab = "finalShortlist"
  THEN [pipe EXCEPT !.finalShortlist = SortData(@, an, pipe.sort)]
  ELSE [pipe EXCEPT !.allData = SortData(@, an, pipe.sort)]

\* renderTable's effect on pipelineState: without a search query `data' is the
\* active array itself and data.sort reorders it in place.  stage1Passed and
\* stage2Evaluated are one array object once updateLists has run (line 1940),
\* and two empty arrays before.
renderTable(pipe, an) ==
  IF pipe.searchQuery # <<>> THEN pipe
  ELSE IF pipe.activeTab \in {"stage1Passed", "stage2Evaluated"}
  THEN [pipe EXCEPT !.stage1Passed = SortData(@, an, pipe.sort),
                    !.stage2Evaluated = SortData(@, an, pipe.sort)]
  ELSE IF pipe.activeTab = "finalShortlist"
  THEN [pipe EXCEPT !.finalShortlist = SortData(@, an, pipe.sort)]
  ELSE pipe

\* An updateLists that leaves stage2Evaluated as it was.
updateListsKeepingEvaluated(pipe, an) ==
  LET S1(p) == Stage1Passed(an[p])
      S2(p) == Stage2Passed(an[p])
      stage1Passed == SelectSeq(pipe.allData, S1)
      finalShortlist == SelectSeq(stage1Passed, S2)
  IN  renderTable([pipe EXCEPT !.stage1Passed = stage1Passed,
                               !.finalShortlist = finalShortlist], an)

\* updateLists (lines 1938-1950): the three filters, then renderTable.
updateLists(pipe, an) ==
  LET S1(p) == Stage1Passed(an[p])
      S2(p) == Stage2Passed(an[p])
      stage1Passed == SelectSeq(pipe.allData, S1)
      stage2Evaluated == stage1Passed
      finalShortlist == SelectSeq(stage2Evaluated, S2)
  IN  renderTable([pipe EXCEPT !.stage1Passed = stage1Passed,
                               !.stage2Evaluated = stage2Evaluated,
                               !.finalShortlist = finalShortlist], an)


(***************************************************************************)
(* The pipeline orchestrator.                                              *)
(***************************************************************************)

\* A status bar that counts the shortlist as the candidates evaluated in stage 2.
updateStatusBarOfShortlist(pipe) ==
  [all |-> Len(pipe.allData),
   stage1Passed |-> Len(pipe.stage1Passed),
   stage2Evaluated |-> Len(pipe.finalShortlist),
   finalShortlist |-> Len(pipe.finalShortlist)]

\* updateStatusBar (lines 1952-1960): the four counts it writes.
updateStatusBar(pipe) ==
  [all |-> Len(pipe.allData),
   stage1Passed |-> Len(pipe.stage1Passed),
   stage2Evaluated |-> Len(pipe.stage2Evaluated),
   finalShortlist |-> Len(pipe.finalShortlist)]

\* The default thresholds (line 1660).
DefaultThresholds ==
  [esi |-> (80 * SCALE) \div 100, lc |-> (50 * SCALE) \div 100, phi |-> (60 * SCALE) \div 100]

\* pipelineState after initPipeline: isTfReady says whether TensorFlow.js was
\* found (line 1716); setupModels builds the models only then; fetchData has
\* assigned the catalog and set its timeout.
InitialPipelineState(tf) ==
  [isTfReady |-> tf,
   allData |-> [i \in Planets |-> i],
   stage1Passed |-> <<>>,
   stage2Evaluated |-> <<>>,
   finalShortlist |-> <<>>,
   activeTab |-> "all",
   sort |-> [key |-> "pl_name", order |-> "asc"],
   searchQuery |-> <<>>,
   selectedPlanet |-> 0,
   models |-> [lc_cnn |-> tf, spec_cnn |-> tf, phi_mlp |-> tf],
   thresholds |-> DefaultThresholds]

NoRun == [p \in Planets |-> IdleTask]

\* The status bar as renderPipelineLayout writes it (line 1765), before
\* fetchData has loaded the catalog: pipelineState.allData is still [].
InitialStatusBar == [all |-> 0, stage1Passed |-> 0, stage2Evaluated |-> 0, finalShortlist |-> 0]

\* No pure function is under study: the page runs.
NoCall == [fn |-> "none"]

InitialGhost ==
  [started |-> 0,                      \* calls of runFullPipeline so far
   writes |-> 0,                       \* threshold inputs accepted so far
   timerRun |-> 0,                     \* the run the timeout of fetchData started
   assigned |-> [r \in RunIds |-> {}], \* the planets run r has assigned an analysis
   epoch |-> [p \in Planets |-> 0],    \* `started' when the flags of analysis[p] were computed
   lister |-> 0,                       \* the run that called updateLists last
   covered |-> {},                     \* the planets that run had assigned by then
   fresh |-> {},                       \* the planets whose flags were not older than that run
   rerun |-> FALSE,                    \* the newest run repeats a completed one
   prior |-> <<>>,                     \* <<analyses and views>> when that run started
   before |-> <<>>,                    \* <<thresholds and views of the completed run>> when the
                                       \* newest run started with no run in flight
   lastRejected |-> <<>>,              \* <<the input and the state before>> when the last step rejected it
   typed |-> <<>>,                     \* the text of the search field, as typed
   burst |-> 0,                        \* threshold inputs accepted since a timer fired or a
                                       \* prediction arrived, each of which started a run
   verdict |-> [r \in RunIds |-> [p \in Planets |-> <<>>]],
                                       \* <<stage1.passed>> as runStage1 returned it to the
                                       \* callback of p in run r, while r is in flight
   stage2Calls |-> [r \in RunIds |-> [p \in Planets |-> 0]],
                                       \* calls of runStage2 by that callback
   stage2Ran |-> {},                   \* the planets whose analysis was attached by a
                                       \* callback that had called runStage2
   lists |-> [r \in RunIds |-> 0]]     \* calls of updateLists by run r

\* The history after a step that rejects no input.
Noted == [ghost EXCEPT !.lastRejected = <<>>]

Init ==
  /\ \E tf \in BOOLEAN : pipelineState = InitialPipelineState(tf)
  /\ analysis = [p \in Planets |-> Undefined]
  /\ prng_seed = <<0, 0>>
  /\ fetchTimer = TRUE
  /\ runs = [r \in RunIds |-> NoRun]
  /\ microtasks = <<>>
  /\ statusBar = InitialStatusBar
  /\ call = NoCall
  /\ ghost = InitialGhost

\* Run r has callbacks that have not all returned and been collected.
InFlight(r) == runs[r] # NoRun

\* No run is in flight.
Quiescent == \A r \in RunIds : ~InFlight(r)

\* The microtask queue is empty: only then does the event loop dispatch the
\* next event (a timer, a DOM event).
Idle == microtasks = <<>>

\* The job at the head of the microtask queue resumes callback p of run r.
Resumes(r, p) == microtasks # <<>> /\ Head(microtasks) = <<r, p>>

\* Every callback of run r has returned; Promise.all has taken those at
\* "collected".
AllDone(tasks) == \A p \in Planets : tasks[p].pc \in {"done", "collected"}

\* The views and analyses a run is compared with.
Snapshot(pipe, an) ==
  [analysis |-> an, stage1Passed |-> pipe.stage1Passed,
   stage2Evaluated |-> pipe.stage2Evaluated, finalShortlist |-> pipe.finalShortlist]

\* pipelineState.models after setupModels with TensorFlow.js (lines 2132-2155).
ReadyModels == [lc_cnn |-> TRUE, spec_cnn |-> TRUE, phi_mlp |-> TRUE]

\* Tables of the pure functions at the catalog's records, so that a step does
\* not compute them again: the name hashes, the ESI, and runLcCNN as called with
\* the generator seeded by the name hash and the models built.
hashCodeOf == [p \in Planets |-> hashCode(planetData[p].pl_name)]
calculateESIOf == [p \in Planets |-> calculateESI(planetData[p].pl_rade, planetData[p].pl_insol)]
runLcCNNOf == [p \in Planets |-> runLcCNN(hashCodeOf[p], planetData[p], ReadyModels)]

\* runStage2 at the catalog's records with the models built, as a table over the
\* generator states the start of a run leaves and those runStage2 leaves, nine
\* draws after a reseed.
runStage2Of ==
  [s \in {runLcCNNOf[p].seed : p \in Planets}
          \cup {LcgSkip(reseed(hashCodeOf[p]), 9) : p \in Planets} |->
     [p \in Planets |-> runStage2(s, planetData[p], ReadyModels)]]

\* runStage2 of record p with the generator at s, through the table.
runStage2At(s, p, models) ==
  IF s \in DOMAIN runStage2Of /\ models = ReadyModels THEN runStage2Of[s][p]
  ELSE runStage2(s, planetData[p], models)

\* runLcCNN of record p with the generator at s, through the table.
runLcCNNAt(s, p, models) ==
  IF s = hashCodeOf[p] /\ models = ReadyModels THEN runLcCNNOf[p]
  ELSE runLcCNN(s, planetData[p], models)

\* A start of the callback that does not reseed: runLcCNN draws from the
\* generator as the callbacks before it left it.
StartTaskWithoutReseed(s, p, models) ==
  LET lc == runLcCNNAt(s, p, models)
  IN  [seed |-> lc.seed,
       task |-> [pc |-> lc.pc, esi |-> calculateESIOf[p], lcScore |-> lc.score]]

\* The synchronous start of the callback of record p (lines 1924-1925), with
\* the generator at s: reseed overwrites it, then calculateESI and runLcCNN up
\* to its first await.
StartTask(s, p, models) ==
  LET lc == runLcCNNAt(reseed(hashCodeOf[p]), p, models)
  IN  [seed |-> lc.seed,
       task |-> [pc |-> lc.pc, esi |-> calculateESIOf[p], lcScore |-> lc.score]]

RECURSIVE StartTasks(_, _, _, _)
\* allData.map(async ...) runs each callback to its first await, in array order.
StartTasks(allData, i, models, acc) ==
  IF i > Len(allData) THEN acc
  ELSE LET st == StartTask(acc.seed, allData[i], models)
       IN  StartTasks(allData, i + 1, models,
                      [seed |-> st.seed,
                       tasks |-> [acc.tasks EXCEPT ![allData[i]] = st.task]])

\* runFullPipeline (lines 1913-1936) called with pipelineState = pipe; g is the
\* history its caller has noted.
runFullPipeline(pipe, g) ==
  LET rid == ghost.started + 1
      again == Quiescent /\ ghost.lister # 0 /\ pipe.thresholds = pipelineState.thresholds
      h == [g EXCEPT !.started = rid,
                     !.rerun = again,
                     !.prior = IF again THEN <<Snapshot(pipelineState, analysis)>> ELSE <<>>,
                     !.before = IF Quiescent /\ ghost.lister # 0
                                THEN <<[thresholds |-> pipelineState.thresholds,
                                        stage1Passed |-> Range(pipelineState.stage1Passed),
                                        finalShortlist |-> Range(pipelineState.finalShortlist)]>>
                                ELSE <<>>]
  IN  IF ~pipe.isTfReady
      THEN /\ analysis' = [p \in Planets |->
                             IF p \in Range(pipe.allData) THEN Disabled ELSE analysis[p]]
           /\ pipelineState' = updateLists(pipe, analysis')
           /\ statusBar' = updateStatusBar(pipelineState')
           /\ UNCHANGED <<prng_seed, runs, microtasks, call>>
           /\ ghost' = [h EXCEPT !.assigned[rid] = Range(pipe.allData),
                                 !.epoch = [p \in Planets |-> rid],
                                 !.lister = rid,
                                 !.lists[rid] = @ + 1,
                                 !.covered = Range(pipe.allData),
                                 !.stage2Ran = @ \ Range(pipe.allData),
                                 !.fresh = Planets]
      ELSE LET st == StartTasks(pipe.allData, 1, pipe.models,
                                [seed |-> prng_seed, tasks |-> NoRun])
           IN  /\ runs' = [runs EXCEPT ![rid] = st.tasks]
               /\ microtasks' = microtasks \o [i \in DOMAIN pipe.allData |-> <<rid, pipe.allData[i]>>]
               /\ prng_seed' = st.seed
               /\ pipelineState' = pipe
               /\ UNCHANGED <<analysis, statusBar, call>>
               /\ ghost' = h

\* The timeout of fetchData fires (lines 1907-1910).
FetchDataTimer ==
  /\ fetchTimer
  /\ Idle
  /\ ghost.started < MaxRuns
  /\ fetchTimer' = FALSE
  /\ runFullPipeline(pipelineState, [Noted EXCEPT !.burst = 0, !.timerRun = ghost.started + 1])

\* A promise job that passes the light curve on.  generatePhaseFoldedLcData is
\* an async function whose body returns a promise (lines 2068-2069): the
\* promise of the call, which runLcCNN awaits (line 2111), is resolved with
\* that one by a job that calls its `then', and fulfilled by the job `then'
\* queues; the job that resumes runLcCNN is the third.
LcDataPromiseJob(r, p) ==
  /\ Resumes(r, p)
  /\ runs[r][p].pc \in {"lcThenable", "lcReaction"}
  /\ runs' = [runs EXCEPT ![r][p].pc = IF @ = "lcThenable" THEN "lcReaction" ELSE "lcData"]
  /\ microtasks' = Append(Tail(microtasks), <<r, p>>)
  /\ ghost' = Noted
  /\ UNCHANGED <<pipelineState, analysis, prng_seed, fetchTimer, statusBar, call>>

\* runLcCNN resumes with the light curve, builds the tensor, calls predict and
\* awaits pred.data() (lines 2111-2114).  The promise of pred.data() is the
\* backend's: when it is fulfilled already (`resolved'), the job that resumes
\* runLcCNN is queued at once; else the callback waits for the backend.
LcDataResumes(r, p, resolved) ==
  /\ Resumes(r, p)
  /\ runs[r][p].pc = "lcData"
  /\ runs' = [runs EXCEPT ![r][p].pc = IF resolved THEN "predData" ELSE "pred"]
  /\ microtasks' = IF resolved THEN Append(Tail(microtasks), <<r, p>>) ELSE Tail(microtasks)
  /\ ghost' = Noted
  /\ UNCHANGED <<pipelineState, analysis, prng_seed, fetchTimer, statusBar, call>>

\* A task of the backend delivers the predictions of the callbacks `seq', in
\* that order: for each, the job that resumes runLcCNN is queued.  The
\* deliveries come in any order, one or several in a task.
PredResolves(seq) ==
  /\ Idle
  /\ seq # <<>>
  /\ \A i, j \in DOMAIN seq : seq[i] = seq[j] => i = j
  /\ \A i \in DOMAIN seq : runs[seq[i][1]][seq[i][2]].pc = "pred"
  /\ runs' = [r \in RunIds |->
                [p \in Planets |-> IF <<r, p>> \in Range(seq)
                                   THEN [runs[r][p] EXCEPT !.pc = "predData"]
                                   ELSE runs[r][p]]]
  /\ microtasks' = seq
  /\ ghost' = [Noted EXCEPT !.burst = 0]
  /\ UNCHANGED <<pipelineState, analysis, prng_seed, fetchTimer, statusBar, call>>

\* runLcCNN resumes with the prediction, disposes the tensors and returns its
\* score (lines 2114-2117): its promise is fulfilled, and the job that resumes
\* runStage1 (line 2008) is queued.
PredResumes(r, p) ==
  /\ Resumes(r, p)
  /\ runs[r][p].pc = "predData"
  /\ runs' = [runs EXCEPT ![r][p].pc = "lcScore"]
  /\ microtasks' = Append(Tail(microtasks), <<r, p>>)
  /\ ghost' = Noted
  /\ UNCHANGED <<pipelineState, analysis, prng_seed, fetchTimer, statusBar, call>>

\* runStage1 resumes with lcScore, applies the gate and returns (2008-2009).
Stage1Resumes(r, p) ==
  LET t == runs[r][p]
      stage1 == [esi |-> t.esi, lcScore |-> t.lcScore,
                 passed |-> Stage1Gate(t.esi, t.lcScore, pipelineState.thresholds)]
  IN  /\ Resumes(r, p)
      /\ t.pc = "lcScore"
      /\ runs' = [runs EXCEPT ![r][p] = [pc |-> "stage1", stage1 |-> stage1,
                                          epoch |-> ghost.started]]
      /\ microtasks' = Append(Tail(microtasks), <<r, p>>)
      /\ ghost' = [Noted EXCEPT !.verdict[r][p] = <<stage1.passed>>]
      /\ UNCHANGED <<pipelineState, analysis, prng_seed, fetchTimer, statusBar, call>>

\* planet.analysis = { stage1, stage2 } (line 1930) by callback p of run r, whose
\* flags date from epoch e; the callback returns, its promise is fulfilled, and
\* the job by which Promise.all (line 1933) takes it is queued.
AssignAnalysis(r, p, stage1, stage2, e) ==
  /\ analysis' = [analysis EXCEPT ![p] = [stage1 |-> stage1, stage2 |-> stage2]]
  /\ runs' = [runs EXCEPT ![r][p] = DoneTask]
  /\ microtasks' = Append(Tail(microtasks), <<r, p>>)
  /\ ghost' = [Noted EXCEPT !.assigned[r] = @ \cup {p}, !.epoch[p] = e,
                            !.stage2Ran = IF ghost.stage2Calls[r][p] > 0
                                          THEN @ \cup {p} ELSE @ \ {p}]

\* A callback that enters runStage2 whatever stage1.passed is.
CallbackWithoutGate(r, p) ==
  LET t == runs[r][p]
      s2 == runStage2At(prng_seed, p, pipelineState.models)
  IN  /\ Resumes(r, p)
      /\ t.pc = "stage1"
      /\ prng_seed' = s2.seed
      /\ runs' = [runs EXCEPT ![r][p] =
                    [pc |-> "phi", stage1 |-> t.stage1, epoch |-> t.epoch,
                     earthSimilarity |-> s2.earthSimilarity,
                     phiLikelihood |-> s2.phiLikelihood]]
      /\ microtasks' = Append(Tail(microtasks), <<r, p>>)
      /\ ghost' = [Noted EXCEPT !.stage2Calls[r][p] = @ + 1]
      /\ UNCHANGED <<pipelineState, analysis, fetchTimer, statusBar, call>>

\* The callback resumes with stage1 (lines 1926-1930): a planet that passed
\* enters runStage2, which runs to its await of runPhiMLP; another is assigned
\* its analysis with stage2 'Not Run'.
CallbackAfterStage1(r, p) ==
  LET t == runs[r][p]
  IN  /\ Resumes(r, p)
      /\ t.pc = "stage1"
      /\ IF t.stage1.passed
         THEN LET Awaits(s2) ==
                    /\ prng_seed' = s2.seed
                    /\ runs' = [runs EXCEPT ![r][p] =
                                  [pc |-> "phi", stage1 |-> t.stage1, epoch |-> t.epoch,
                                   earthSimilarity |-> s2.earthSimilarity,
                                   phiLikelihood |-> s2.phiLikelihood]]
              IN  /\ Awaits(runStage2At(prng_seed, p, pipelineState.models))
                  /\ microtasks' = Append(Tail(microtasks), <<r, p>>)
                  /\ ghost' = [Noted EXCEPT !.stage2Calls[r][p] = @ + 1]
                  /\ UNCHANGED analysis
         ELSE /\ AssignAnalysis(r, p, t.stage1, NotRun, t.epoch)
              /\ UNCHANGED prng_seed
      /\ UNCHANGED <<pipelineState, fetchTimer, statusBar, call>>

\* runStage2 resumes with phiLikelihood, applies the gate and returns (2055-2056).
Stage2Resumes(r, p) ==
  LET t == runs[r][p]
      stage2 == [earthSimilarity |-> t.earthSimilarity,
                 phiLikelihood |-> t.phiLikelihood,
                 passed |-> Stage2Gate(t.phiLikelihood, pipelineState.thresholds)]
  IN  /\ Resumes(r, p)
      /\ t.pc = "phi"
      /\ runs' = [runs EXCEPT ![r][p] = [pc |-> "stage2", stage1 |-> t.stage1,
                                          stage2 |-> stage2, epoch |-> t.epoch]]
      /\ microtasks' = Append(Tail(microtasks), <<r, p>>)
      /\ ghost' = Noted
      /\ UNCHANGED <<pipelineState, analysis, prng_seed, fetchTimer, statusBar, call>>

\* The callback resumes with stage2 and assigns planet.analysis (1928-1930).
CallbackAfterStage2(r, p) ==
  LET t == runs[r][p]
  IN  /\ Resumes(r, p)
      /\ t.pc = "stage2"
      /\ AssignAnalysis(r, p, t.stage1, t.stage2, t.epoch)
      /\ UNCHANGED <<pipelineState, prng_seed, fetchTimer, statusBar, call>>

\* A Promise.all that is fulfilled with each promise it takes.
PromiseAllElementThenEach(r, p) ==
  /\ Resumes(r, p)
  /\ runs[r][p].pc = "done"
  /\ runs' = [runs EXCEPT ![r][p].pc = "collected"]
  /\ microtasks' = Append(Tail(microtasks), <<r, 0>>)
  /\ ghost' = Noted
  /\ UNCHANGED <<pipelineState, analysis, prng_seed, fetchTimer, statusBar, call>>

\* Promise.all (line 1933) takes the fulfilled promise of callback p; with the
\* last one of the run its own promise is fulfilled, and its `then' is queued.
PromiseAllElement(r, p) ==
  LET tasks == [runs[r] EXCEPT ![p].pc = "collected"]
  IN  /\ Resumes(r, p)
      /\ runs[r][p].pc = "done"
      /\ runs' = [runs EXCEPT ![r] = tasks]
      /\ microtasks' = IF \A q \in Planets : tasks[q].pc = "collected"
                       THEN Append(Tail(microtasks), <<r, 0>>)
                       ELSE Tail(microtasks)
      /\ ghost' = Noted
      /\ UNCHANGED <<pipelineState, analysis, prng_seed, fetchTimer, statusBar, call>>

\* Promise.all(analysisPromises).then: updateLists (lines 1933-1935).
RunSettles(r) ==
  /\ Resumes(r, 0)
  /\ pipelineState' = updateLists(pipelineState, analysis)
  /\ statusBar' = updateStatusBar(pipelineState')
  /\ runs' = [runs EXCEPT ![r] = NoRun]
  /\ microtasks' = Tail(microtasks)
  /\ ghost' = [Noted EXCEPT !.lister = r,
                            !.lists[r] = @ + 1,
                            !.verdict[r] = [p \in Planets |-> <<>>],
                            !.stage2Calls[r] = [p \in Planets |-> 0],
                            !.covered = ghost.assigned[r],
                            !.fresh = {p \in Planets : ghost.epoch[p] >= r}]
  /\ UNCHANGED <<analysis, prng_seed, fetchTimer, call>>

\* The texts typed into a threshold field: "0.2", "0.99", "", "-0.5", "1.5",
\* "1.00001" and "-0.00001".
ThresholdInputs ==
  { <<48, 46, 50>>, <<48, 46, 57, 57>>, <<>>, <<45, 48, 46, 53>>, <<49, 46, 53>>,
    <<49, 46, 48, 48, 48, 48, 49>>, <<45, 48, 46, 48, 48, 48, 48, 49>> }

ThresholdKeys == {"esi", "lc", "phi"}

\* parseFloat at the texts typed, as a table, so that a step does not read a
\* text again.
parseFloatOf == [value \in ThresholdInputs |-> parseFloat(value)]

\* An updateThreshold that stores an accepted value and starts no run.
updateThresholdWithoutRun(key, value) ==
  LET numericValue == parseFloatOf[value]
  IN  /\ Idle
      /\ IF IsRejected(numericValue)
         THEN ghost' = [ghost EXCEPT !.lastRejected =
                          <<[key |-> key, value |-> value,
                             thresholds |-> pipelineState.thresholds,
                             started |-> ghost.started]>>]
              /\ UNCHANGED pipelineState
         ELSE /\ pipelineState' = [pipelineState EXCEPT !.thresholds[key] = numericValue[1]]
              /\ ghost' = [Noted EXCEPT !.writes = @ + 1, !.burst = @ + 1]
      /\ UNCHANGED <<analysis, prng_seed, fetchTimer, runs, microtasks, statusBar, call>>

\* updateThreshold(key, value) (lines 2365-2377), the handler of a change event.
\* The threshold stored is the number read, in units of 1 / SCALE as every
\* score is.
updateThreshold(key, value) ==
  LET numericValue == parseFloatOf[value]
  IN  /\ Idle
      /\ IF IsRejected(numericValue)
         THEN /\ ghost' = [ghost EXCEPT !.lastRejected =
                             <<[key |-> key, value |-> value,
                                thresholds |-> pipelineState.thresholds,
                                started |-> ghost.started]>>]
              /\ UNCHANGED <<pipelineState, analysis, prng_seed, fetchTimer, runs, microtasks, statusBar, call>>
         ELSE /\ ghost.started < MaxRuns
              /\ runFullPipeline([pipelineState EXCEPT !.thresholds[key] = numericValue[1]],
                                 [Noted EXCEPT !.writes = @ + 1, !.burst = @ + 1])
              /\ UNCHANGED fetchTimer

\* The promise job at the head of the microtask queue runs; pred.data() gives
\* a promise that is fulfilled already when `resolved' holds true.
PromiseJob(resolved) ==
  \/ \E r \in RunIds, p \in Planets :
       \/ LcDataPromiseJob(r, p)
       \/ \E b \in resolved : LcDataResumes(r, p, b)
       \/ PredResumes(r, p)
       \/ Stage1Resumes(r, p)
       \/ CallbackAfterStage1(r, p)
       \/ Stage2Resumes(r, p)
       \/ CallbackAfterStage2(r, p)
       \/ PromiseAllElement(r, p)
  \/ \E r \in RunIds : RunSettles(r)

\* Predictions the backend delivers in one task, at most.
MaxDeliveries == 2

Next ==
  \/ FetchDataTimer
  \/ \E key \in ThresholdKeys, value \in ThresholdInputs : updateThreshold(key, value)
  \/ \E n \in 1 .. MaxDeliveries : \E seq \in [1 .. n -> RunIds \X Planets] : PredResolves(seq)
  \/ PromiseJob(BOOLEAN)

Spec == Init /\ [][Next]_vars

\* The page under an event loop that runs the queued promise jobs: it drains
\* the microtask queue before it takes the next event, so a queued job is never
\* left waiting.
SpecLive == Init /\ [][Next]_vars /\ WF_vars(PromiseJob(BOOLEAN))

(***************************************************************************)
(* The events of the table: tabs, search, sort.                            *)
(***************************************************************************)

\* A click on a tab (lines 2169-2173).
TabClick(tab) ==
  /\ Idle
  /\ pipelineState' = renderTable([pipelineState EXCEPT !.activeTab = tab], analysis)
  /\ ghost' = Noted
  /\ UNCHANGED <<analysis, prng_seed, fetchTimer, runs, microtasks, statusBar, call>>

\* The texts typed into the search field: "", "KIC", "kic", "zz", and "KIC"
\* with the KELVIN SIGN U+212A for its first letter.
SearchInputs ==
  { <<>>, <<75, 73, 67>>, <<107, 105, 99>>, <<122, 122>>, <<8490, 73, 67>> }

\* toLowerCase at the texts typed, as a table, so that a step does not map a
\* text again.
toLowerCaseOf == [value \in SearchInputs |-> toLowerCase(value)]

\* An input event of the search field (lines 1819-1822).
SearchInput(value) ==
  /\ Idle
  /\ pipelineState' = renderTable([pipelineState EXCEPT !.searchQuery = toLowerCaseOf[value]],
                                  analysis)
  /\ ghost' = [Noted EXCEPT !.typed = value]
  /\ UNCHANGED <<analysis, prng_seed, fetchTimer, runs, microtasks, statusBar, call>>

\* The data-key of the five column headers (lines 2182-2188).
SortKeys ==
  {"pl_name", "analysis.stage1.esi.aggregate", "analysis.stage1.lcScore",
   "analysis.stage2.phiLikelihood", "status"}

\* A click on a column header (lines 2241-2251).  renderTable rebuilds the
\* headers on every call and returns at line 2217, before it attaches their
\* listeners, when the table has no row: only the headers of a table with rows
\* answer a click.
SortClick(key) ==
  /\ Idle
  /\ TableRows(pipelineState, analysis) # <<>>
  /\ LET sort == IF pipelineState.sort.key = key
                 THEN [key |-> key,
                       order |-> IF pipelineState.sort.order = "asc" THEN "desc" ELSE "asc"]
                 ELSE [key |-> key, order |-> "desc"]
     IN  pipelineState' = renderTable([pipelineState EXCEPT !.sort = sort], analysis)
  /\ ghost' = Noted
  /\ UNCHANGED <<analysis, prng_seed, fetchTimer, runs, microtasks, statusBar, call>>

\* The page without TensorFlow.js: isTfReady stays false (line 1716), every run
\* is synchronous, and the table never has a row for a header or row click.
InitUnavailable == Init /\ ~pipelineState.isTfReady

NextUnavailable ==
  \/ FetchDataTimer
  \/ \E key \in ThresholdKeys, value \in ThresholdInputs : updateThreshold(key, value)
  \/ \E tab \in Tabs : TabClick(tab)
  \/ \E value \in SearchInputs : SearchInput(value)

SpecUnavailable == InitUnavailable /\ [][NextUnavailable]_vars

\* The page with TensorFlow.js and the events of the table: the runs of the
\* timeout of fetchData and of one threshold input, "0.2" for the signal
\* threshold, which lets every candidate of the catalog pass stage 1.  On the
\* pages with the table's events a threshold is typed while no run is in
\* flight, and the backend delivers its predictions one in a task, none at
\* once; the page of Next has the inputs that overlap runs, the predictions
\* fulfilled at once and the tasks that deliver several.
InitView == Init /\ pipelineState.isTfReady

\* The headers clicked on the pages with tabs and search: the name and the
\* likelihood.
TableSortKeys == {"pl_name", "analysis.stage2.phiLikelihood"}

NextView ==
  \/ FetchDataTimer
  \/ Quiescent /\ updateThreshold("lc", <<48, 46, 50>>)
  \/ \E r \in RunIds, p \in Planets : PredResolves(<< <<r, p>> >>)
  \/ PromiseJob({FALSE})
  \/ \E tab \in Tabs : TabClick(tab)
  \/ \E value \in SearchInputs : SearchInput(value)
  \/ \E key \in TableSortKeys : SortClick(key)

SpecView == InitView /\ [][NextView]_vars

\* A row click that runs the pipeline again rather than render the table.
RowClickThatRuns(p) ==
  /\ Idle
  /\ p \in Range(TableRows(pipelineState, analysis))
  /\ ghost.started < MaxRuns
  /\ runFullPipeline([pipelineState EXCEPT !.selectedPlanet = p], Noted)
  /\ UNCHANGED fetchTimer

\* A click on the row of planet p (lines 2254-2261): the rows are the ones of
\* the last renderTable, whose members change only with a renderTable;
\* allData.find gives the first record of allData that has the name of the row,
\* renderDrawer writes the drawer only, and renderTable sorts again.
RowClick(p) ==
  LET allData == pipelineState.allData
      named == {i \in DOMAIN allData :
                  planetData[allData[i]].pl_name = planetData[p].pl_name}
      planet == allData[CHOOSE i \in named : \A j \in named : i <= j]
  IN
  /\ Idle
  /\ p \in Range(TableRows(pipelineState, analysis))
  /\ pipelineState' = renderTable([pipelineState EXCEPT !.selectedPlanet = planet], analysis)
  /\ ghost' = Noted
  /\ UNCHANGED <<analysis, prng_seed, fetchTimer, runs, microtasks, statusBar, call>>

\* The texts typed into the search field of the page with row clicks: "", "kic".
TableSearchInputs == { <<>>, <<107, 105, 99>> }

\* The data-key of the four headers over a value of the record or its analysis.
ValueSortKeys == SortKeys \ {"status"}

\* The page with TensorFlow.js and every event of the table, the clicks on its
\* rows included.
NextTable ==
  \/ FetchDataTimer
  \/ Quiescent /\ updateThreshold("lc", <<48, 46, 50>>)
  \/ \E r \in RunIds, p \in Planets : PredResolves(<< <<r, p>> >>)
  \/ PromiseJob({FALSE})
  \/ \E tab \in Tabs : TabClick(tab)
  \/ \E value \in TableSearchInputs : SearchInput(value)
  \/ \E key \in TableSortKeys : SortClick(key)
  \/ \E p \in Planets : RowClick(p)

SpecTable == InitView /\ [][NextTable]_vars

\* The texts typed into the signal threshold field of the page below: "0.2",
\* under which every candidate passes stage 1, and "0.99", under which none does.
SignalInputs == { <<48, 46, 50>>, <<48, 46, 57, 57>> }

\* The page with TensorFlow.js, a signal threshold that is lowered or raised,
\* and the events that render the table: tabs, search, sort.
NextSort ==
  \/ FetchDataTimer
  \/ Quiescent /\ \E value \in SignalInputs : updateThreshold("lc", value)
  \/ \E r \in RunIds, p \in Planets : PredResolves(<< <<r, p>> >>)
  \/ PromiseJob({FALSE})
  \/ \E tab \in Tabs : TabClick(tab)
  \/ \E value \in TableSearchInputs : SearchInput(value)
  \/ \E key \in ValueSortKeys : SortClick(key)

SpecSort == InitView /\ [][NextSort]_vars


(***************************************************************************)
(* What the properties below compare the pipeline with.                    *)
(***************************************************************************)

\* The scores of a candidate evaluated alone, one step after the other, on a
\* generator nothing else draws from.
SequentialOf ==
  [p \in Planets |->
     LET st == StartTask(<<0, 0>>, p, ReadyModels)
         s2 == runStage2(st.seed, planetData[p], ReadyModels)
     IN  [esi |-> st.task.esi, lcScore |-> st.task.lcScore,
          earthSimilarity |-> s2.earthSimilarity, phiLikelihood |-> s2.phiLikelihood]]

\* The analysis one run gives candidate p when every gate reads thr.
SingleRun(p, thr) ==
  LET v == SequentialOf[p]
      passed == Stage1Gate(v.esi, v.lcScore, thr)
  IN  [stage1 |-> [esi |-> v.esi, lcScore |-> v.lcScore, passed |-> passed],
       stage2 |-> IF passed
                  THEN [earthSimilarity |-> v.earthSimilarity,
                        phiLikelihood |-> v.phiLikelihood,
                        passed |-> Stage2Gate(v.phiLikelihood, thr)]
                  ELSE [status |-> "Not Run"]]

\* <<stage2.status>>, or <<>> when the analysis has no such field.
StatusOf(a) ==
  IF "stage2" \in DOMAIN a /\ "status" \in DOMAIN a.stage2 THEN <<a.stage2.status>> ELSE <<>>

\* An analysis that a run with the models attached.
Evaluated(a) == "stage1" \in DOMAIN a /\ "passed" \in DOMAIN a.stage1

ThresholdsInRange ==
  \A key \in ThresholdKeys :
    pipelineState.thresholds[key] >= 0 /\ pipelineState.thresholds[key] <= SCALE

(***************************************************************************)
(* Properties.                                                             *)
(***************************************************************************)

\* C1, as stated: for every candidate with an analysis attached, stage2.status
\* is 'Evaluated' if and only if stage1.passed is true.
C1StatusEvaluatedIffPassed ==
  \A p \in Planets :
    analysis[p] # Undefined =>
      (StatusOf(analysis[p]) = <<"Evaluated">> <=> Stage1Passed(analysis[p]))

\* C1, as the code has it: for every candidate a run with the models has
\* analysed, stage2 carries the status 'Not Run' if and only if stage1.passed is
\* false; the stage2 of a candidate that passed is the result of runStage2,
\* which has no status field, so the status 'Evaluated' is never stored.  The
\* analysis of the unavailable mode has no status either.
C1StatusNotRunIffNotPassed ==
  \A p \in Planets :
    /\ StatusOf(analysis[p]) # <<"Evaluated">>
    /\ Evaluated(analysis[p]) =>
         /\ StatusOf(analysis[p]) = <<"Not Run">> <=> ~analysis[p].stage1.passed
         /\ analysis[p].stage1.passed =>
              DOMAIN analysis[p].stage2 = {"earthSimilarity", "phiLikelihood", "passed"}
    /\ ~Evaluated(analysis[p]) => StatusOf(analysis[p]) = <<>>

\* C1: a run has attached an analysis to a candidate that passed stage 1 and to
\* one that did not.
C1Witness ==
  \E p, q \in Planets :
    /\ Evaluated(analysis[p]) /\ analysis[p].stage1.passed
    /\ Evaluated(analysis[q]) /\ ~analysis[q].stage1.passed

\* C2: in every reachable state FinalShortlist is a subset of Stage2Evaluated,
\* that of Stage1Passed, and that of the catalog.
C2ViewsNested ==
  /\ Range(pipelineState.finalShortlist) \subseteq Range(pipelineState.stage2Evaluated)
  /\ Range(pipelineState.stage2Evaluated) \subseteq Range(pipelineState.stage1Passed)
  /\ Range(pipelineState.stage1Passed) \subseteq Range(pipelineState.allData)

\* C2: the three views differ from one another and from the catalog while a
\* later run is in flight.
C2Witness ==
  /\ ~Quiescent
  /\ pipelineState.finalShortlist # <<>>
  /\ Len(pipelineState.finalShortlist) < Len(pipelineState.stage1Passed)
  /\ Len(pipelineState.stage1Passed) < Len(pipelineState.allData)

\* C3: when runFullPipeline has run to completion, and is run again to
\* completion with the thresholds unchanged, every candidate's analysis and the
\* three views are what they were after the first run.
C3Idempotent ==
  (ghost.rerun /\ Quiescent) => Snapshot(pipelineState, analysis) = ghost.prior[1]

\* C3: such a second run has completed with the models, and shortlisted a
\* candidate.
C3Witness ==
  /\ ghost.rerun /\ Quiescent
  /\ pipelineState.isTfReady
  /\ ghost.lister = ghost.started
  /\ pipelineState.finalShortlist # <<>>

\* C4: whatever the interleaving of the callbacks, the signal score, the
\* atmospheric similarity and the habitability likelihood a callback holds, and
\* those of every attached analysis, are the values of the candidate evaluated
\* alone.
C4Deterministic ==
  \A p \in Planets :
    /\ \A r \in RunIds :
         LET t == runs[r][p]
         IN  /\ "lcScore" \in DOMAIN t => t.lcScore = SequentialOf[p].lcScore
             /\ "stage1" \in DOMAIN t => t.stage1.lcScore = SequentialOf[p].lcScore
             /\ "phiLikelihood" \in DOMAIN t =>
                  /\ t.earthSimilarity = SequentialOf[p].earthSimilarity
                  /\ t.phiLikelihood = SequentialOf[p].phiLikelihood
             /\ "stage2" \in DOMAIN t =>
                  /\ t.stage2.earthSimilarity = SequentialOf[p].earthSimilarity
                  /\ t.stage2.phiLikelihood = SequentialOf[p].phiLikelihood
    /\ Evaluated(analysis[p]) =>
         /\ analysis[p].stage1.lcScore = SequentialOf[p].lcScore
         /\ "phiLikelihood" \in DOMAIN analysis[p].stage2 =>
              /\ analysis[p].stage2.earthSimilarity = SequentialOf[p].earthSimilarity
              /\ analysis[p].stage2.phiLikelihood = SequentialOf[p].phiLikelihood

\* C4: a callback of one run holds its stage-2 result, drawn after other
\* callbacks reseeded and drew, while a callback of another run waits for its
\* prediction.
C4Witness ==
  \E r, r2 \in RunIds, p, q \in Planets :
    /\ r # r2
    /\ runs[r][p].pc = "stage2"
    /\ ~isIdealCandidate(planetData[p])
    /\ runs[r2][q].pc = "pred"

\* A step in which run r commits after a threshold input has started a newer
\* run: it assigns a candidate's analysis, or its updateLists recomputes the
\* views.
StaleCommit(r) ==
  /\ \E newer \in RunIds : r < newer /\ newer <= ghost.started /\ newer # ghost.timerRun
  /\ \/ ghost'.assigned[r] # ghost.assigned[r]
     \/ Resumes(r, 0) /\ microtasks' # microtasks

\* C5, as stated: once a threshold input has started a newer run, an earlier
\* unfinished run writes no candidate's analysis and does not recompute the
\* views.
C5StaleRunCommitsNothing == [][\A r \in RunIds : ~StaleCommit(r)]_vars

\* C6: after any accepted threshold updates, once every run has completed,
\* every candidate's analysis is that of one run at the final thresholds, and
\* the three views are the filters of those analyses in catalog order.
C6ViewsCatchUp ==
  (Quiescent /\ ghost.lister # 0) =>
    LET expected == [p \in Planets |->
                       IF pipelineState.isTfReady
                       THEN SingleRun(p, pipelineState.thresholds)
                       ELSE [stage1 |-> [error |-> "AI models disabled"],
                             stage2 |-> [error |-> "AI models disabled"]]]
        S1(p) == pipelineState.isTfReady /\ expected[p].stage1.passed
        S2(p) == S1(p) /\ expected[p].stage2.passed
    IN  /\ analysis = expected
        /\ pipelineState.stage1Passed = SelectSeq(pipelineState.allData, S1)
        /\ pipelineState.stage2Evaluated = SelectSeq(pipelineState.allData, S1)
        /\ pipelineState.finalShortlist = SelectSeq(pipelineState.allData, S2)

\* C6: two runs overlapped, the thresholds are no longer the defaults, every
\* run has completed, and the run started first recomputed the views last.
C6Witness ==
  /\ Quiescent
  /\ pipelineState.isTfReady
  /\ pipelineState.thresholds # DefaultThresholds
  /\ ghost.lister # 0 /\ ghost.lister < ghost.started
  /\ pipelineState.stage1Passed # <<>>

\* C7: the three thresholds lie in [0, 1] in every reachable state, and a step
\* of updateThreshold with an input that is NaN, below 0 or above 1 leaves all
\* three thresholds as they were and starts no run.
C7RejectsInvalid ==
  /\ ThresholdsInRange
  /\ ghost.lastRejected # <<>> =>
       LET last == ghost.lastRejected[1]
           v == parseFloatOf[last.value]
       IN  /\ \/ v = <<>>
               \/ v[1] < 0 \/ (v[1] = 0 /\ v[2] < 0)
               \/ v[1] > SCALE \/ (v[1] = SCALE /\ v[2] > 0)
           /\ pipelineState.thresholds = last.thresholds
           /\ ghost.started = last.started
  /\ ghost.writes > 0 \/ pipelineState.thresholds = DefaultThresholds

\* C7: the input "1.00001" has just been rejected, after another input changed
\* a threshold.
C7Witness ==
  /\ ghost.lastRejected # <<>>
  /\ ghost.lastRejected[1].value = <<49, 46, 48, 48, 48, 48, 49>>
  /\ pipelineState.thresholds # DefaultThresholds

\* C8: the catalog load and every accepted threshold input start a run, and
\* when a run recomputes the views it has assigned every candidate of the
\* catalog an analysis, none of which has flags computed before that run
\* started.
C8FullReevaluation ==
  /\ ghost.started = ghost.writes + (IF fetchTimer THEN 0 ELSE 1)
  /\ ghost.lister # 0 =>
       /\ ghost.covered = Range(pipelineState.allData)
       /\ ghost.fresh = Range(pipelineState.allData)

\* C8: with the models, the run of an accepted threshold input has recomputed
\* the views after the run of the catalog load.
C8Witness ==
  /\ pipelineState.isTfReady
  /\ ~fetchTimer
  /\ ghost.writes > 0
  /\ ghost.lister = ghost.started
  /\ ghost.started > 1

\* C9, as stated: the accepted threshold inputs of one burst (no timer fires
\* and no prediction arrives between them) start at most one run.
C9WritesCoalesced == ghost.burst <= 1

\* C10: without TensorFlow.js, after any threshold inputs, tab clicks and
\* searches, every candidate's analysis is the disabled one once a run has been
\* made, the three views are empty, the status bar counts no pass, the table
\* has no row (so no header answers a click), and nothing is left in flight.
C10DegradesGracefully ==
  ~pipelineState.isTfReady =>
    /\ \A p \in Planets :
         analysis[p] = IF ghost.started = 0 THEN Undefined ELSE Disabled
    /\ pipelineState.stage1Passed = <<>>
    /\ pipelineState.stage2Evaluated = <<>>
    /\ pipelineState.finalShortlist = <<>>
    /\ updateStatusBar(pipelineState) =
         [all |-> Len(planetData), stage1Passed |-> 0, stage2Evaluated |-> 0,
          finalShortlist |-> 0]
    /\ TableRows(pipelineState, analysis) = <<>>
    /\ Quiescent /\ Idle
    /\ ThresholdsInRange

\* C10: without TensorFlow.js, two runs have been made, a threshold was
\* changed, the shortlist tab is open and a search is typed.
C10Witness ==
  /\ ~pipelineState.isTfReady
  /\ ghost.started > 1
  /\ pipelineState.thresholds # DefaultThresholds
  /\ pipelineState.activeTab = "finalShortlist"
  /\ pipelineState.searchQuery = <<107, 105, 99>>


\* C11: while a run is in flight, its callback of a candidate has called
\* runStage2 at most once, only after runStage1 returned passed = true to it,
\* and it has called it as soon as it has resumed with such a stage1; so, when
\* all callbacks of the run have returned, runStage2 was called for exactly
\* the candidates whose stage1.passed was true in that run.
C11Stage2ForSurvivorsOnly ==
  \A r \in RunIds, p \in Planets :
    LET calls == ghost.stage2Calls[r][p]
        verdict == ghost.verdict[r][p]
    IN  /\ calls <= 1
        /\ calls = 1 => verdict = <<TRUE>>
        /\ runs[r][p].pc \in {"phi", "stage2", "done", "collected"} => (calls = 1 <=> verdict = <<TRUE>>)

\* Every callback of a run has returned, runStage2 was called for one
\* candidate and not for another.
C11Witness ==
  \E r \in RunIds :
    /\ AllDone(runs[r])
    /\ \E p, q \in Planets :
         /\ ghost.stage2Calls[r][p] = 1 /\ ghost.verdict[r][p] = <<TRUE>>
         /\ ghost.stage2Calls[r][q] = 0 /\ ghost.verdict[r][q] = <<FALSE>>

\* Thresholds b are thresholds a with the habitability threshold raised and
\* nothing else changed.
RaisedHabitabilityOnly(a, b) == a.esi = b.esi /\ a.lc = b.lc /\ a.phi < b.phi

\* C12: when a run that started after a completed run, with thresholds that
\* differ from its thresholds only by a raised habitability threshold, has
\* completed too, its finalShortlist holds no candidate the earlier one did
\* not hold, so it is not longer, and its stage1Passed holds the same
\* candidates.
C12MonotoneShrink ==
  (Quiescent /\ ghost.before # <<>>
     /\ RaisedHabitabilityOnly(ghost.before[1].thresholds, pipelineState.thresholds)) =>
    /\ Range(pipelineState.finalShortlist) \subseteq ghost.before[1].finalShortlist
    /\ Len(pipelineState.finalShortlist) <= Cardinality(ghost.before[1].finalShortlist)
    /\ Range(pipelineState.stage1Passed) = ghost.before[1].stage1Passed

\* A run completed with the habitability threshold raised from 0.60 to 0.99
\* after a completed run, and the shortlist lost a candidate.
C12Witness ==
  /\ Quiescent /\ ghost.before # <<>>
  /\ pipelineState.isTfReady
  /\ ghost.before[1].thresholds = DefaultThresholds
  /\ pipelineState.thresholds = [DefaultThresholds EXCEPT !.phi = 9900]
  /\ ghost.before[1].finalShortlist # {}
  /\ Len(pipelineState.finalShortlist) < Cardinality(ghost.before[1].finalShortlist)
  /\ pipelineState.stage1Passed # <<>>

\* C13: once a run has rendered the table, whenever the active tab is 'all'
\* and the search query is empty, the rows of the table are the candidates of
\* the catalog.
C13AllViewIsCatalog ==
  (ghost.lister # 0 /\ pipelineState.activeTab = "all" /\ pipelineState.searchQuery = <<>>) =>
    Range(TableRows(pipelineState, analysis)) = Range(pipelineState.allData)

\* The small letter of a unit of a name or query: of an ASCII capital, and of
\* the KELVIN SIGN, whose small letter is "k".
Folded(c) == IF c >= 65 /\ c <= 90 THEN c + 32 ELSE IF c = 8490 THEN 107 ELSE c

\* query occurs in name when the case of the letters is ignored.
ContainsIgnoringCase(name, query) ==
  \E i \in 0 .. (Len(name) - Len(query)) :
    \A j \in 1 .. Len(query) : Folded(name[i + j]) = Folded(query[j])

\* The candidates of the view a tab names, 'all' naming the catalog.
ViewOf(tab) ==
  IF tab = "all" THEN Range(pipelineState.allData) ELSE Range(pipelineState[tab])

\* The members of the view of the active tab whose name contains the text of
\* the search field, case ignored.
Matching ==
  {p \in ViewOf(pipelineState.activeTab) :
     ContainsIgnoringCase(planetData[p].pl_name, ghost.typed)}

\* C14: once a run has rendered the table, its rows are exactly the members
\* of the view of the active tab, the catalog for 'all', whose name contains
\* the text of the search field, case ignored.
C14SearchWithinActiveView ==
  ghost.lister # 0 => Range(TableRows(pipelineState, analysis)) = Matching

\* C14, on the three tabs that name a property of pipelineState: the rows are
\* exactly the matching members of that view, each once.
C14SearchWithinDerivedView ==
  (ghost.lister # 0 /\ pipelineState.activeTab # "all") =>
    LET rows == TableRows(pipelineState, analysis)
    IN  /\ Range(rows) = Matching
        /\ Len(rows) = Cardinality(Matching)

\* "KIC", typed with the KELVIN SIGN for its first letter, is searched in the
\* Stage 1 Passed tab while that view holds the three candidates: the two whose
\* name starts with KIC are shown, Kepler-1343 b is not.
C14Witness ==
  /\ ghost.lister # 0
  /\ pipelineState.activeTab = "stage1Passed"
  /\ ghost.typed = <<8490, 73, 67>>
  /\ pipelineState.searchQuery = <<107, 105, 99>>
  /\ Range(pipelineState.stage1Passed) = Planets
  /\ Range(TableRows(pipelineState, analysis)) = {2, 3}

\* C15: the status bar was written last by renderPipelineLayout, with the
\* catalog not yet loaded and four counts of 0, or by updateLists, and then its
\* four counts are the sizes of the catalog, stage1Passed, stage2Evaluated and
\* finalShortlist as they are now; so the count of stage2Evaluated is that of
\* stage1Passed, and shortlist <= stage2Evaluated <= total.
C15StatusCounts ==
  IF ghost.lister = 0
  THEN statusBar = [all |-> 0, stage1Passed |-> 0, stage2Evaluated |-> 0, finalShortlist |-> 0]
  ELSE /\ statusBar.all = Cardinality(Range(pipelineState.allData))
       /\ statusBar.stage1Passed = Cardinality(Range(pipelineState.stage1Passed))
       /\ statusBar.stage2Evaluated = Cardinality(Range(pipelineState.stage2Evaluated))
       /\ statusBar.finalShortlist = Cardinality(Range(pipelineState.finalShortlist))
       /\ statusBar.stage2Evaluated = statusBar.stage1Passed
       /\ statusBar.finalShortlist <= statusBar.stage2Evaluated
       /\ statusBar.stage2Evaluated <= statusBar.all

\* updateLists has written the status bar of a run with the models: 3
\* candidates, 2 past stage 1 and evaluated in stage 2, 1 shortlisted.
C15Witness ==
  /\ ghost.lister # 0
  /\ pipelineState.isTfReady
  /\ statusBar = [all |-> 3, stage1Passed |-> 2, stage2Evaluated |-> 2, finalShortlist |-> 1]

\* C16: with TensorFlow.js, once a run has completed and the thresholds are the
\* defaults, the candidate "KIC-8462852 b" has stage1.passed = true, a stage2
\* that runStage2 returned with passed = true, and is in finalShortlist (and
\* so in stage1Passed and stage2Evaluated).
C16GoldenCandidateShortlisted ==
  (Quiescent /\ ghost.lister # 0 /\ pipelineState.isTfReady
     /\ pipelineState.thresholds = DefaultThresholds) =>
    \A p \in Planets :
      planetData[p].pl_name = NameKIC8462852b =>
        /\ Evaluated(analysis[p])
        /\ analysis[p].stage1.passed
        /\ analysis[p].stage2 # NotRun
        /\ "phiLikelihood" \in DOMAIN analysis[p].stage2
        /\ analysis[p].stage2.passed
        /\ p \in Range(pipelineState.stage1Passed)
        /\ p \in Range(pipelineState.stage2Evaluated)
        /\ p \in Range(pipelineState.finalShortlist)

\* The first run has completed with the default thresholds and the models,
\* and stage 2 has scored KIC-8462852 b with a likelihood above 0.6.
C16Witness ==
  /\ Quiescent /\ ghost.lister # 0 /\ pipelineState.isTfReady
  /\ pipelineState.thresholds = DefaultThresholds
  /\ \E p \in Planets :
       /\ planetData[p].pl_name = NameKIC8462852b
       /\ analysis[p].stage2 # NotRun
       /\ analysis[p].stage2.phiLikelihood >= 6000

(***************************************************************************)
(* The atmosphere panel: updatePhiMeter (lines 736-740) scores the         *)
(* composition the sliders (lines 762-769, 782) have set.                  *)
(***************************************************************************)

\* The pipeline page as loaded, and left alone.
PageLoaded ==
  /\ pipelineState = InitialPipelineState(TRUE)
  /\ analysis = [p \in Planets |-> Undefined]
  /\ prng_seed = <<0, 0>>
  /\ fetchTimer = TRUE
  /\ runs = [r \in RunIds |-> NoRun]
  /\ microtasks = <<>>
  /\ statusBar = InitialStatusBar
  /\ ghost = InitialGhost

PageUnchanged ==
  UNCHANGED <<pipelineState, analysis, prng_seed, fetchTimer, runs, microtasks, statusBar, ghost>>

\* atmosphereState.concentrations as declared (lines 117-119), in percent.
EarthReference ==
  [H2O |-> SCALE, CO2 |-> (4 * SCALE) \div 100, CH4 |-> SCALE \div 100, CO |-> 0, SO2 |-> 0,
   O2 |-> 21 * SCALE, O3 |-> SCALE \div 100, NH3 |-> 0]

\* The maximum of each slider (lines 762-769); its minimum is 0 (line 782).
SliderMax ==
  [H2O |-> 10 * SCALE, O2 |-> 25 * SCALE, CO2 |-> SCALE, CH4 |-> SCALE \div 10,
   O3 |-> SCALE \div 10, SO2 |-> SCALE \div 10, NH3 |-> SCALE \div 10, CO |-> SCALE \div 10]

\* The positions of a slider explored: its ends and the reference value.
SliderValues(gas) == {0, EarthReference[gas], SliderMax[gas]}

\* The compositions the sliders can set, on those positions.
Compositions ==
  {c \in [H2O : SliderValues("H2O"), O2 : SliderValues("O2"), CO2 : SliderValues("CO2"),
          CH4 : SliderValues("CH4"), O3 : SliderValues("O3"),
          SO2 : SliderValues("SO2"), NH3 : SliderValues("NH3"), CO : SliderValues("CO")] : TRUE}

InitAtmosphere ==
  /\ PageLoaded
  /\ \E c \in Compositions :
       call = [fn |-> "calculateAtmosphericSimilarity", composition |-> c, result |-> <<>>]

\* updatePhiMeter (lines 736-740): the score of the composition set.
updatePhiMeter ==
  /\ call.fn = "calculateAtmosphericSimilarity"
  /\ call.result = <<>>
  /\ call' = [call EXCEPT !.result = <<calculateAtmosphericSimilarity(call.composition)>>]
  /\ PageUnchanged

SpecAtmosphere == InitAtmosphere /\ [][updatePhiMeter]_vars

\* The function has scored the composition set.
Scored == call.fn = "calculateAtmosphericSimilarity" /\ call.result # <<>>

\* C17: the score of the Earth-reference composition exceeds 0.9.
C17EarthReferenceAbove09 ==
  (Scored /\ call.composition = EarthReference) => call.result[1] > (9 * SCALE) \div 10

\* C18: the score of every composition within the slider ranges lies in
\* [0, 1], and it is 0 when CO, SO2 and NH3 are all at their maximum 0.1,
\* whatever the other five gases are.
C18ToxicMaxScoresZero ==
  Scored =>
    /\ call.result[1] >= 0 /\ call.result[1] <= SCALE
    /\ (\A gas \in {"CO", "SO2", "NH3"} : call.composition[gas] = SliderMax[gas]) =>
         call.result[1] = 0

\* The three toxic gases are at their maximum, the other five at the
\* reference values, which score 0.583 without them: the score is 0.
C18Witness ==
  /\ Scored
  /\ call.composition = [EarthReference EXCEPT !.CO = SliderMax.CO, !.SO2 = SliderMax.SO2,
                                               !.NH3 = SliderMax.NH3]
  /\ calculateAtmosphericSimilarity(EarthReference) > SCALE \div 2
  /\ call.result = <<0>>

(***************************************************************************)
(* The generator alone: reseed with the hash of a name, draw, reseed with  *)
(* the same hash, draw again.                                              *)
(***************************************************************************)

\* Draws explored after a reseed: predictAtmosphereAndSimilarity makes 8.
MaxDraws == 8

\* "GydZG_": its wrapped hash is -2^31.
NameOfMinimumHash == <<71, 121, 100, 90, 71, 95>>

\* The names whose hash seeds the generator: the catalog's, the two
\* reference candidates', the empty name, and one whose hash is 2^31.
SeedNames == {planetData[p].pl_name : p \in Planets} \cup {NameKOI70103, <<>>, NameOfMinimumHash}

InitGenerator ==
  /\ PageLoaded
  /\ \E name \in SeedNames :
       call = [fn |-> "seededRandom", seed |-> hashCode(name),
               state |-> reseed(hashCode(name)), drawn |-> <<>>, earlier |-> <<>>]

\* A call of seededRandom (lines 14-17).
Draw ==
  /\ call.fn = "seededRandom"
  /\ Len(call.drawn) < MaxDraws
  /\ LET d == seededRandom(call.state)
     IN  call' = [call EXCEPT !.state = d.seed,
                              !.drawn = Append(@, [state |-> d.seed, value |-> d.value])]
  /\ PageUnchanged

\* reseed (lines 11-13) with the same seed, after some draws: the sequence
\* drawn so far is kept aside and a second one starts.
ReseedAgain ==
  /\ call.fn = "seededRandom"
  /\ call.earlier = <<>> /\ call.drawn # <<>>
  /\ call' = [call EXCEPT !.state = reseed(call.seed), !.earlier = call.drawn, !.drawn = <<>>]
  /\ PageUnchanged

NextGenerator == Draw \/ ReseedAgain

SpecGenerator == InitGenerator /\ [][NextGenerator]_vars

\* The four-limb number x is below 2^53: a double holds it exactly.
ExactInDouble(x) == x[1] < 2^5

\* The state a draw started from: the seed, or the state of the draw before.
StateBefore(i) == IF i = 1 THEN call.seed ELSE call.drawn[i - 1].state

\* s is an integer in [0, 2^32).
IsState(s) == s[1] \in 0 .. (LIMB - 1) /\ s[2] \in 0 .. (LIMB - 1)

\* C19: for the seeds the name hash gives and after any number of draws, the
\* product state * 1664525 + 1013904223 stays below 2^53 (as it does from the
\* largest state 2^32 - 1), so the double arithmetic of the code is exact; the
\* new state is that number modulo 2^32, an integer in [0, 2^32); the value
\* returned is state / 2^32, in [0, 1); and a second sequence drawn after a
\* reseed with the same seed repeats the first.
C19GeneratorExact ==
  call.fn = "seededRandom" =>
    /\ ExactInDouble(LcgExact(<<LIMB - 1, LIMB - 1>>))
    /\ IsState(call.state)
    /\ \A i \in 1 .. Len(call.drawn) :
         LET x == LcgExact(StateBefore(i))
             d == call.drawn[i]
         IN  /\ ExactInDouble(x)
             /\ IsState(d.state)
             /\ d.state = <<x[3], x[4]>>
             /\ d.value >= 0 /\ d.value < SCALE
             /\ d.value * LIMB <= d.state[1] * SCALE + (d.state[2] * SCALE) \div LIMB
             /\ (d.value + 1) * LIMB > d.state[1] * SCALE + (d.state[2] * SCALE) \div LIMB
    /\ \A i \in 1 .. Min(Len(call.drawn), Len(call.earlier)) : call.drawn[i] = call.earlier[i]

\* Eight draws from the seed 2^31, the hash of "GydZG_", and eight again
\* after a reseed with it, with states that differ from draw to draw.
C19Witness ==
  /\ call.fn = "seededRandom"
  /\ call.seed = <<LIMB \div 2, 0>>
  /\ Len(call.earlier) = MaxDraws /\ Len(call.drawn) = MaxDraws
  /\ call.drawn[1].state # call.drawn[2].state
  /\ call.drawn[1].state[1] >= LIMB \div 2

(***************************************************************************)
(* hashCode alone, one turn of its loop at a time.                         *)
(***************************************************************************)

\* Length of the names enumerated letter by letter.
MaxNameLen == 3

\* The letters of those names: "K", "-", "b".
NameLetters == {75, 45, 98}

\* The names hashed: every name of at most MaxNameLen of those letters, and
\* the names that seed the generator.
HashNames ==
  SeedNames \cup UNION {[1 .. n -> NameLetters] : n \in 0 .. MaxNameLen}

InitHash ==
  /\ PageLoaded
  /\ \E str \in HashNames :
       call = [fn |-> "hashCode", str |-> str, i |-> 1, hash |-> <<0, 0>>, result |-> <<>>]

\* One turn of `for (let i = 0; i < str.length; i++)' (lines 20-24).
HashLoop ==
  /\ call.fn = "hashCode"
  /\ call.i <= Len(call.str)
  /\ call' = [call EXCEPT !.hash = hashStep(@, call.str[call.i]), !.i = @ + 1]
  /\ PageUnchanged

\* return Math.abs(hash) (line 25).
HashReturn ==
  /\ call.fn = "hashCode"
  /\ call.i > Len(call.str)
  /\ call.result = <<>>
  /\ call' = [call EXCEPT !.result = <<Abs32(call.hash)>>]
  /\ PageUnchanged

NextHash == HashLoop \/ HashReturn

SpecHash == InitHash /\ [][NextHash]_vars

RECURSIVE Fold31(_, _)
\* hash * 31 + charCode over the first n characters of str, modulo 2^32.
Fold31(str, n) ==
  IF n = 0 THEN <<0, 0>>
  ELSE LET h  == Fold31(str, n - 1)
           t0 == h[2] * 31 + str[n]
           t1 == h[1] * 31 + (t0 \div LIMB)
       IN  <<t1 % LIMB, t0 % LIMB>>

\* r is the absolute value of the signed 32-bit integer with pattern h:
\* h itself when its sign bit is clear, the number that adds to 2^32 with h
\* when it is set.
IsAbsOf(r, h) ==
  IF h[1] < LIMB \div 2 THEN r = h
  ELSE /\ (r[2] + h[2]) % LIMB = 0
       /\ (r[1] + h[1] + (r[2] + h[2]) \div LIMB) = LIMB

\* C20: after each character the hash is hash * 31 + charCode wrapped to 32
\* bits; the value returned is the absolute value of that signed integer, an
\* integer in [0, 2^31], 2^31 when the wrapped hash is -2^31 and 0 for the empty
\* string; it is the value hashCode gives the name wherever it is called.
C20HashNonnegative ==
  call.fn = "hashCode" =>
    /\ call.hash = Fold31(call.str, call.i - 1)
    /\ call.result # <<>> =>
         LET r == call.result[1]
         IN  /\ r[1] \in 0 .. (LIMB \div 2) /\ r[2] \in 0 .. (LIMB - 1)
             /\ r[1] = LIMB \div 2 => r[2] = 0
             /\ IsAbsOf(r, Fold31(call.str, Len(call.str)))
             /\ call.hash = <<LIMB \div 2, 0>> => r = <<LIMB \div 2, 0>>
             /\ call.str = <<>> => r = <<0, 0>>
             /\ r = hashCode(call.str)

\* "GydZG_" has been hashed: the wrapped hash is -2^31 and 2^31 is returned.
C20Witness ==
  /\ call.fn = "hashCode"
  /\ call.str = NameOfMinimumHash
  /\ call.hash = <<LIMB \div 2, 0>>
  /\ call.result = << <<LIMB \div 2, 0>> >>

(***************************************************************************)
(* runLcCNN alone, with the models setupModels builds.                     *)
(***************************************************************************)

\* The generator states before the draws 0 and (2^32 - 1) / 2^32.
SeedOfLeastDraw == <<9686, 4069>>

SeedOfGreatestDraw == <<9973, 46880>>

\* The generator states runLcCNN is called with: those reached from the hash
\* of a name in up to MaxDraws draws, and the two before the extreme draws.
SignalSeeds ==
  {LcgSkip(hashCode(name), k) : name \in SeedNames, k \in 0 .. MaxDraws}
    \cup {SeedOfLeastDraw, SeedOfGreatestDraw}

\* The page with its models built and the generator at `seed', as runLcCNN is
\* called for the candidate `name'.
InitSignal ==
  /\ pipelineState = InitialPipelineState(TRUE)
  /\ analysis = [p \in Planets |-> Undefined]
  /\ fetchTimer = TRUE
  /\ runs = [r \in RunIds |-> NoRun]
  /\ microtasks = <<>>
  /\ statusBar = InitialStatusBar
  /\ ghost = InitialGhost
  /\ \E name \in SeedNames, seed \in SignalSeeds :
       /\ prng_seed = seed
       /\ call = [fn |-> "runLcCNN", name |-> name, seed |-> seed, pc |-> "start",
                  score |-> <<>>, result |-> <<>>]

\* runLcCNN(planet) is called (lines 2097-2111) and runs to its return or to its
\* first await.  A reference candidate draws once and the promise is fulfilled
\* with its score.  Any other candidate draws once for its score, and
\* generatePhaseFoldedLcData draws 64 times more as it is called; the function
\* stops at the await of line 2111, its promise pending, and the first of the
\* jobs that lead to its resumption, <<0, 0>>, is queued.
runLcCNNCall ==
  LET lc == runLcCNN(prng_seed, [pl_name |-> call.name], ReadyModels)
  IN  /\ call.fn = "runLcCNN"
      /\ call.pc = "start"
      /\ prng_seed' = lc.seed
      /\ IF lc.pc = "lcScore"
         THEN /\ call' = [call EXCEPT !.pc = "returned", !.result = <<lc.score>>]
              /\ UNCHANGED microtasks
         ELSE /\ call' = [call EXCEPT !.pc = lc.pc, !.score = <<lc.score>>]
              /\ microtasks' = Append(microtasks, <<0, 0>>)
      /\ UNCHANGED <<pipelineState, analysis, fetchTimer, runs, statusBar, ghost>>

\* The two jobs by which the promise of generatePhaseFoldedLcData is resolved
\* with the promise its body returned (lines 2068-2069), then fulfilled.
runLcCNNLcDataPromiseJob ==
  /\ call.fn = "runLcCNN"
  /\ call.pc \in {"lcThenable", "lcReaction"}
  /\ Resumes(0, 0)
  /\ call' = [call EXCEPT !.pc = IF @ = "lcThenable" THEN "lcReaction" ELSE "lcData"]
  /\ microtasks' = Append(Tail(microtasks), <<0, 0>>)
  /\ UNCHANGED <<pipelineState, analysis, prng_seed, fetchTimer, runs, statusBar, ghost>>

\* runLcCNN resumes with the light curve, builds the tensor, calls predict and
\* stops at `await pred.data()' (lines 2111-2114): with a promise fulfilled
\* already the job that resumes it is queued at once; else no promise job is
\* left, and the promise of the call is pending until the backend delivers.
runLcCNNLcDataResumes ==
  /\ call.fn = "runLcCNN"
  /\ call.pc = "lcData"
  /\ Resumes(0, 0)
  /\ \E resolved \in BOOLEAN :
       /\ call' = [call EXCEPT !.pc = IF resolved THEN "predData" ELSE "pred"]
       /\ microtasks' = IF resolved THEN Append(Tail(microtasks), <<0, 0>>)
                        ELSE Tail(microtasks)
  /\ UNCHANGED <<pipelineState, analysis, prng_seed, fetchTimer, runs, statusBar, ghost>>

\* The backend delivers the prediction, in a task of its own: the job that
\* resumes runLcCNN is queued.
runLcCNNPredResolves ==
  /\ call.fn = "runLcCNN"
  /\ call.pc = "pred"
  /\ Idle
  /\ call' = [call EXCEPT !.pc = "predData"]
  /\ microtasks' = Append(microtasks, <<0, 0>>)
  /\ UNCHANGED <<pipelineState, analysis, prng_seed, fetchTimer, runs, statusBar, ghost>>

\* runLcCNN resumes, disposes the tensors and returns its score (lines
\* 2115-2117): the promise of the call is fulfilled.
runLcCNNReturns ==
  /\ call.fn = "runLcCNN"
  /\ call.pc = "predData"
  /\ Resumes(0, 0)
  /\ call' = [call EXCEPT !.pc = "returned", !.result = call.score]
  /\ microtasks' = Tail(microtasks)
  /\ UNCHANGED <<pipelineState, analysis, prng_seed, fetchTimer, runs, statusBar, ghost>>

NextSignal ==
  \/ runLcCNNCall
  \/ runLcCNNLcDataPromiseJob
  \/ runLcCNNLcDataResumes
  \/ runLcCNNPredResolves
  \/ runLcCNNReturns

SpecSignal == InitSignal /\ [][NextSignal]_vars

\* x^5 by four products.
FifthPower(x) == FMul(FMul(FMul(FMul(x, x), x), x), x)

\* C22: the signal score of "KIC-8462852 b" and of "KOI-701.03" is
\* 0.95 + draw * 0.04 and lies in [0.95, 0.99], so it passes every signal
\* threshold up to 0.95; the score of any other candidate lies in [0.1, 0.95)
\* and is 0.1 + draw^2.5 * 0.85: (score - 0.1) / 0.85, squared, is draw^5 up to
\* the rounding of the arithmetic; every score is in [0, 1].  The call has its
\* score only when it has returned.
C22SignalBands ==
  (call.fn = "runLcCNN" /\ call.result # <<>>) =>
    LET score == call.result[1]
        draw  == Unit(LcgStep(call.seed))
    IN  /\ call.pc = "returned"
        /\ score >= 0 /\ score <= SCALE
        /\ IF call.name \in {NameKIC8462852b, NameKOI70103}
           THEN /\ score >= (95 * SCALE) \div 100 /\ score <= (99 * SCALE) \div 100
                /\ Abs(score - ((95 * SCALE) \div 100 + (draw * 4) \div 100)) <= 1
                /\ \A lc \in 0 .. 95 : score >= (lc * SCALE) \div 100
           ELSE /\ score >= SCALE \div 10 /\ score < (95 * SCALE) \div 100
                /\ LET y == ((score - SCALE \div 10) * 100) \div 85
                   IN  Abs(FMul(y, y) - FifthPower(draw)) <= SCALE \div 200

\* A reference candidate scored on the greatest draw, after that one draw, or
\* another candidate scored on it too, after its two awaits and 65 draws: the
\* first is in the high band, the second just below 0.95.
C22Witness ==
  /\ call.fn = "runLcCNN" /\ call.result # <<>>
  /\ call.seed = SeedOfGreatestDraw
  /\ \/ /\ call.name = NameKOI70103 /\ call.result[1] > (98 * SCALE) \div 100
        /\ prng_seed = LcgStep(call.seed)
     \/ /\ call.name = <<>> /\ call.result[1] > (94 * SCALE) \div 100
        /\ prng_seed = LcgSkip(call.seed, LcPoints + 1)

(***************************************************************************)
(* calculateESI alone.                                                     *)
(***************************************************************************)

\* The radii and fluxes explored, in Earth units: absent, 0, 0.01, 0.5, 1,
\* 1.02, 2, 50, 500.
EsiInputs ==
  {<<>>, <<0>>, <<SCALE \div 100>>, <<SCALE \div 2>>, <<SCALE>>, <<(102 * SCALE) \div 100>>,
   <<2 * SCALE>>, <<50 * SCALE>>, <<500 * SCALE>>}

InitESI ==
  /\ PageLoaded
  /\ \E radius \in EsiInputs, flux \in EsiInputs :
       call = [fn |-> "calculateESI", radius |-> radius, flux |-> flux, result |-> <<>>]

\* calculateESI(radius, flux) (lines 2059-2066).
calculateESICall ==
  /\ call.fn = "calculateESI"
  /\ call.result = <<>>
  /\ call' = [call EXCEPT !.result = <<calculateESI(call.radius, call.flux)>>]
  /\ PageUnchanged

SpecESI == InitESI /\ [][calculateESICall]_vars

\* C23: for every nonnegative radius and flux, absent ones included,
\* calculateESI returns a radius score, a flux score and an aggregate in
\* [0, 1]; the aggregate is exactly 1 for radius 1.0 and flux 1.0, and an
\* absent value scores as 1.0 does.
C23EsiInUnitRange ==
  (call.fn = "calculateESI" /\ call.result # <<>>) =>
    LET esi == call.result[1]
    IN  /\ esi.radius >= 0 /\ esi.radius <= SCALE
        /\ esi.flux >= 0 /\ esi.flux <= SCALE
        /\ esi.aggregate >= 0 /\ esi.aggregate <= SCALE
        /\ call.radius \in {<<>>, <<SCALE>>} => esi.radius = SCALE
        /\ call.flux \in {<<>>, <<SCALE>>} => esi.flux = SCALE
        /\ (call.radius \in {<<>>, <<SCALE>>} /\ call.flux \in {<<>>, <<SCALE>>}) =>
             esi.aggregate = SCALE

\* An absent radius with flux 500 has been scored: the radius score is 1,
\* the flux score and the aggregate are small and not 0.
C23Witness ==
  /\ call.fn = "calculateESI" /\ call.result # <<>>
  /\ call.radius = <<>> /\ call.flux = <<500 * SCALE>>
  /\ call.result[1].radius = SCALE
  /\ call.result[1].flux > 0 /\ call.result[1].flux < SCALE \div 10
  /\ call.result[1].aggregate > 0 /\ call.result[1].aggregate < SCALE \div 2

\* The callback of p in run r holds a stage1 that runStage1 has returned and
\* that is not attached yet.
HoldsStage1(r, p) == runs[r][p].pc \in {"stage1", "phi", "stage2"}

\* C24: the flag of a stage1 result is the conjunction of the two gates on
\* the scores of the same result: while a callback holds the stage1 that
\* runStage1 returned, and in every analysis once all runs have completed,
\* passed = (esi.aggregate >= thresholds.esi) and (lcScore >= thresholds.lc).
C24Stage1Gate ==
  /\ \A r \in RunIds, p \in Planets :
       HoldsStage1(r, p) =>
         LET stage1 == runs[r][p].stage1
         IN  stage1.passed <=> (/\ stage1.esi.aggregate >= pipelineState.thresholds.esi
                                /\ stage1.lcScore >= pipelineState.thresholds.lc)
  /\ (Quiescent /\ ghost.lister # 0 /\ pipelineState.isTfReady) =>
       \A p \in Planets :
         LET stage1 == analysis[p].stage1
         IN  stage1.passed <=> (/\ stage1.esi.aggregate >= pipelineState.thresholds.esi
                                /\ stage1.lcScore >= pipelineState.thresholds.lc)

\* runStage1 has returned a stage1 that fails the ESI gate alone, while the
\* analysis another candidate has from the run with the default thresholds
\* fails the signal gate alone.
C24Witness ==
  \E r \in RunIds, p, q \in Planets :
    /\ runs[r][p].pc = "stage1"
    /\ runs[r][p].stage1.esi.aggregate < pipelineState.thresholds.esi
    /\ runs[r][p].stage1.lcScore >= pipelineState.thresholds.lc
    /\ ~runs[r][p].stage1.passed
    /\ Evaluated(analysis[q])
    /\ analysis[q].stage1.esi.aggregate >= DefaultThresholds.esi
    /\ analysis[q].stage1.lcScore < DefaultThresholds.lc
    /\ ~analysis[q].stage1.passed

\* The band the base likelihood of a candidate is drawn from (line 2125).
BaseBand(p) ==
  IF planetData[p].pl_name \in {NameKIC8462852b, NameKOI70103}
  THEN [lo |-> (90 * SCALE) \div 100, hi |-> (95 * SCALE) \div 100]
  ELSE [lo |-> (20 * SCALE) \div 100, hi |-> (58 * SCALE) \div 100]

\* phi is base * 0.6 + earthSimilarity * 0.4, rounded down, for some base of
\* the band of p.
IsBlend(p, phi, earthSimilarity) ==
  LET x == 10 * phi - 4 * earthSimilarity
  IN  x > 6 * BaseBand(p).lo - 10 /\ x <= 6 * BaseBand(p).hi

\* C25: the likelihood a callback holds from runStage2 is base * 0.6 +
\* earthSimilarity * 0.4 with the base in the band of the candidate; the flag
\* of the stage2 it returns is phiLikelihood >= thresholds.phi on that
\* likelihood; and the stage2 of an attached analysis has a field passed if
\* and only if the callback that attached it had called runStage2.
C25Stage2Gate ==
  /\ \A r \in RunIds, p \in Planets :
       /\ runs[r][p].pc = "phi" =>
            IsBlend(p, runs[r][p].phiLikelihood, runs[r][p].earthSimilarity)
       /\ runs[r][p].pc = "stage2" =>
            LET stage2 == runs[r][p].stage2
            IN  /\ IsBlend(p, stage2.phiLikelihood, stage2.earthSimilarity)
                /\ stage2.passed <=> stage2.phiLikelihood >= pipelineState.thresholds.phi
                /\ ghost.stage2Calls[r][p] = 1
  /\ \A p \in Planets :
       /\ analysis[p] # Undefined =>
            ("passed" \in DOMAIN analysis[p].stage2 <=> p \in ghost.stage2Ran)
       /\ p \in ghost.stage2Ran =>
            IsBlend(p, analysis[p].stage2.phiLikelihood, analysis[p].stage2.earthSimilarity)
       /\ (Quiescent /\ p \in ghost.stage2Ran) =>
            (analysis[p].stage2.passed <=>
               analysis[p].stage2.phiLikelihood >= pipelineState.thresholds.phi)

\* runStage2 has returned a stage2 that fails the habitability gate, an
\* analysis with a stage2 that passed is attached to another candidate, and
\* a third has an analysis whose stage 2 did not run.
C25Witness ==
  \E r \in RunIds, p, q, o \in Planets :
    /\ runs[r][p].pc = "stage2" /\ ~runs[r][p].stage2.passed
    /\ q \in ghost.stage2Ran /\ analysis[q].stage2.passed
    /\ o \notin ghost.stage2Ran /\ analysis[o] # Undefined
    /\ "passed" \notin DOMAIN analysis[o].stage2

\* C26: within one run no callback calls runStage2 before runStage1 has
\* returned the result, with its flag passed, of every candidate of that run.
C26Stage1OverCatalogFirst ==
  \A r \in RunIds, p \in Planets :
    ghost.stage2Calls[r][p] >= 1 =>
      \A q \in Planets : ghost.verdict[r][q] # <<>>

\* Every callback of run r has returned and its Promise.all has not been
\* collected yet.
Completes(r) == InFlight(r) /\ AllDone(runs[r])

\* C27: a run calls updateLists at most once, not while one of its callbacks
\* is still to return, and only when each candidate of the catalog has been
\* assigned an analysis with a stage1 and a stage2 by that run; and a run
\* whose callbacks have all returned goes on to call updateLists, so that it
\* has called it exactly once.
C27ListsOncePerRun ==
  /\ [](\A r \in RunIds :
          /\ ghost.lists[r] <= 1
          /\ (InFlight(r) /\ pipelineState.isTfReady) => ghost.lists[r] = 0
          /\ ghost.lists[r] = 1 =>
               /\ ghost.assigned[r] = Range(pipelineState.allData)
               /\ \A p \in Range(pipelineState.allData) :
                    DOMAIN analysis[p] = {"stage1", "stage2"})
  /\ \A r \in RunIds : Completes(r) ~> (ghost.lists[r] = 1 /\ ~InFlight(r))

\* Two runs have each called updateLists once, the second of them started
\* while the first was in flight.
C27Witness ==
  /\ \A r \in RunIds : ghost.lists[r] = 1
  /\ ghost.before = <<>>
  /\ ghost.started = MaxRuns
  /\ ghost.timerRun = 1
  /\ pipelineState.isTfReady

\* The values a threshold takes: its default, or an accepted input.
ThresholdValues(key) ==
  {DefaultThresholds[key]} \cup
  {parseFloatOf[value][1] : value \in {v \in ThresholdInputs : ~IsRejected(parseFloatOf[v])}}

\* The ThresholdSets the page can hold.
ThresholdSets ==
  [esi : ThresholdValues("esi"), lc : ThresholdValues("lc"), phi : ThresholdValues("phi")]

\* The flags of the analysis a are the ones the two gates give under thr.
FlagsUnder(a, thr) ==
  /\ a.stage1.passed <=> Stage1Gate(a.stage1.esi, a.stage1.lcScore, thr)
  /\ a.stage1.passed =>
       (a.stage2.passed <=> Stage2Gate(a.stage2.phiLikelihood, thr))

\* C29: when a run calls updateLists with the models available, there is one
\* ThresholdSet under which the gates give the flags of every attached
\* analysis.
C29OneThresholdSet ==
  [][(ghost'.lists # ghost.lists /\ pipelineState.isTfReady) =>
       \E thr \in ThresholdSets :
         \A p \in Range(pipelineState.allData) : FlagsUnder(analysis'[p], thr)]_vars

\* The only write to a catalog record: planet.analysis = { stage1, stage2 }.
IsAttached(a) == DOMAIN a = {"stage1", "stage2"}

\* C21: the catalog array holds the records fetchData loaded, in that order,
\* whatever runs, threshold inputs and table events have happened; and a step
\* changes a record only by attaching an analysis to it.
C21CatalogKept ==
  /\ [](pipelineState.allData = InitialPipelineState(TRUE).allData)
  /\ [][\A p \in Planets : analysis'[p] # analysis[p] => IsAttached(analysis'[p])]_vars

\* After two runs, with a row selected and the table sorted by name
\* downwards, a derived view is in the reverse of the catalog order.
C21Witness ==
  /\ ghost.lister = MaxRuns
  /\ pipelineState.selectedPlanet # 0
  /\ pipelineState.sort = [key |-> "pl_name", order |-> "desc"]
  /\ Len(pipelineState.stage1Passed) = Len(pipelineState.allData)
  /\ \A i \in DOMAIN pipelineState.stage1Passed :
       pipelineState.stage1Passed[i] =
         pipelineState.allData[Len(pipelineState.allData) + 1 - i]

\* The step calls renderTable: a run calls updateLists, or an event of the
\* table writes pipelineState.
Renders ==
  \/ ghost'.lists # ghost.lists
  \/ /\ pipelineState' # pipelineState
     /\ pipelineState'.thresholds = pipelineState.thresholds

\* The members of the active array whose name contains the search query.
Searched(pipe) ==
  {p \in Range(ActiveData(pipe)) :
     Includes(toLowerCase(planetData[p].pl_name), pipe.searchQuery)}

\* rows holds each member of set once.
IsPermutationOf(rows, set) ==
  /\ Range(rows) = set
  /\ \A i, j \in DOMAIN rows : rows[i] = rows[j] => i = j

\* The value the rows are ordered by: the name, or the number under the key,
\* -1 for a candidate whose analysis has none.
InOrder(pa, pb, an, sort) ==
  LET AtMost(a, b) ==
        IF sort.key = "pl_name"
        THEN a = b \/ SeqLess(planetData[a].pl_name, planetData[b].pl_name, 1)
        ELSE NumericSortValue(an[a], sort.key) <= NumericSortValue(an[b], sort.key)
  IN  IF sort.order = "asc" THEN AtMost(pa, pb) ELSE AtMost(pb, pa)

\* C28: the rows a renderTable shows are the searched members of the active
\* array, each once, non-decreasing in the sort key for 'asc' and non-increasing
\* for 'desc', a candidate without the value counting as -1; and a step that
\* changes the sort either keeps the key and flips the order or takes another
\* key with the order 'desc'.
C28SortOrdersRows ==
  [][/\ Renders =>
          LET rows == TableRows(pipelineState', analysis')
          IN  /\ IsPermutationOf(rows, Searched(pipelineState'))
              /\ \A i, j \in DOMAIN rows :
                   i < j => InOrder(rows[i], rows[j], analysis', pipelineState'.sort)
     /\ pipelineState'.sort # pipelineState.sort =>
          /\ pipelineState'.sort.key \in ValueSortKeys
          /\ IF pipelineState'.sort.key = pipelineState.sort.key
             THEN pipelineState'.sort.order # pipelineState.sort.order
             ELSE pipelineState'.sort.order = "desc"]_vars

\* The table shows three rows by likelihood downwards, in another order than
\* the catalog's, the last of them a candidate that a run in flight has since
\* rejected in stage 1 and that has no likelihood.
C28Witness ==
  LET rows == TableRows(pipelineState, analysis)
  IN  /\ pipelineState.sort = [key |-> "analysis.stage2.phiLikelihood", order |-> "desc"]
      /\ Len(rows) = 3
      /\ analysis[rows[3]].stage2 = NotRun
      /\ Stage1Passed(analysis[rows[1]]) /\ Stage1Passed(analysis[rows[2]])
      /\ rows # pipelineState.allData
      /\ pipelineState[pipelineState.activeTab] = rows
      /\ ~Quiescent

\* What the events of the table write: the tab, the search text, the sort
\* and the selection.
ViewSettings ==
  <<pipelineState.activeTab, pipelineState.searchQuery, ghost.typed,
    pipelineState.sort, pipelineState.selectedPlanet>>

\* What the pipeline owns: the thresholds, the analyses, the members of the
\* three derived views, and the runs started, in flight and completed.
PipelineSide ==
  <<pipelineState.thresholds, analysis,
    Range(pipelineState.stage1Passed), Range(pipelineState.stage2Evaluated),
    Range(pipelineState.finalShortlist),
    ghost.started, ghost.lists, runs, microtasks, fetchTimer, prng_seed, statusBar>>

\* C30: a step that changes the tab, the search text, the sort or the
\* selection leaves the thresholds, every analysis and the members of the
\* three derived views as they were and starts no run; the selection is 0
\* (none) or a candidate of the catalog, it changes only by a click on a row
\* shown, to a candidate of that row's name, and no step of a run changes or
\* clears it.
C30ViewEventsKeepPipeline ==
  /\ [](pipelineState.selectedPlanet # 0 =>
          pipelineState.selectedPlanet \in Range(pipelineState.allData))
  /\ [][/\ ViewSettings' # ViewSettings => PipelineSide' = PipelineSide
        /\ pipelineState.selectedPlanet # 0 => pipelineState'.selectedPlanet # 0
        /\ pipelineState'.selectedPlanet # pipelineState.selectedPlanet =>
             /\ Idle
             /\ \E p \in Range(TableRows(pipelineState, analysis)) :
                  planetData[p].pl_name = planetData[pipelineState'.selectedPlanet].pl_name
        /\ (ghost'.started # ghost.started \/ ghost'.lists # ghost.lists
            \/ analysis' # analysis) =>
             pipelineState'.selectedPlanet = pipelineState.selectedPlanet]_vars

\* After the two runs a candidate is selected on the shortlist tab, with a
\* search text typed and the table sorted by likelihood.
C30Witness ==
  /\ pipelineState.selectedPlanet # 0
  /\ ghost.lists = [r \in RunIds |-> 1]
  /\ pipelineState.thresholds # DefaultThresholds
  /\ pipelineState.activeTab = "finalShortlist"
  /\ pipelineState.searchQuery # <<>>
  /\ pipelineState.sort.key = "analysis.stage2.phiLikelihood"
  /\ pipelineState.selectedPlanet \notin Range(pipelineState.finalShortlist)

====
